---- MODULE Spec2Model ----
(***************************************************************************)
(* Clause extraction and risk scoring of Legalyze                          *)
(* (backend/app/services/clause_service.py and risk_service.py).           *)
(*                                                                         *)
(* Texts are TLA+ strings and every `pattern in text` test of the source   *)
(* is a real substring search.  The scores of the source are Python        *)
(* floats (IEEE-754 binary64, round to nearest even); they are modelled    *)
(* bit for bit by the Double operators below, because int() and the >=     *)
(* thresholds of the source act on the rounded values.                     *)
(***************************************************************************)
EXTENDS Integers, Sequences, FiniteSets, TLC

VARIABLES
    pc,                  \* position in the operation under study
    text,                \* SpecRisk: the clause text given to _evaluate_clause_risk
    result,              \* SpecRisk: what _evaluate_clause_risk returned
    doc_sents,           \* _segment_sentences: doc.sents, the sentences of the document
    sentences,           \* the sentences returned by _segment_sentences
    classified,          \* extract_and_classify_clauses: its local classified
    merged,              \* extract_and_classify_clauses: its local merged
    clauses,             \* the clause records (list of dicts)
    overall_risk_score,  \* compute_contract_risk_score(clauses)
    top_risky_type,      \* get_top_risky_clause_type(clauses)
    hash_seed,           \* the str hash salt of the running interpreter
    db,                  \* the document store: the analyses collection and the contract
    requests,            \* the requests being handled: each handler's position and locals
    uuid_count,          \* how many identifiers (uuid4, ObjectId) have been drawn
    _simplifier          \* simplifier_service.py: the module-level _simplifier

vars == <<pc, text, result, doc_sents, sentences, classified, merged, clauses,
          overall_risk_score, top_risky_type, hash_seed,
          db, requests, uuid_count, _simplifier>>

\* the state outside the clause and risk services
store_vars == <<db, requests, uuid_count, _simplifier>>

(***************************************************************************)
(* Python values                                                           *)
(***************************************************************************)
\* Python's None in a field that otherwise holds a string.
None == "None"

\* Python's None in the integer field risk_score.
NoScore == -1

\* no analysis stored, no request in flight, _simplifier = None
StoreIdle ==
    /\ db = [analyses |-> <<>>, analysis_status |-> None,
             analysis_summary |-> [total_clauses |-> 0, overall_risk_score |-> NoScore]]
    /\ requests = <<>>
    /\ uuid_count = 0
    /\ _simplifier = None

Max(S) == CHOOSE m \in S : \A n \in S : n <= m

MinInt(a, b) == IF a <= b THEN a ELSE b

(***************************************************************************)
(* Python float: IEEE-754 binary64.                                        *)
(* A Double is a sign and a magnitude; the magnitude is a fixed-point      *)
(* number of NLimbs limbs of LimbBits bits, least significant first, the   *)
(* last limb being the integer part: value = mag / 2^(LimbBits*FracLimbs). *)
(* Every operation computes the exact result and rounds it to 53           *)
(* significant bits, ties to even, as the hardware does.                   *)
(***************************************************************************)
LimbBits == 15

FracLimbs == 8

Precision == 53

LimbBase == 2^LimbBits

NLimbs == FracLimbs + 1

ZeroMag == [i \in 1..NLimbs |-> 0]

RECURSIVE AddLimbs(_, _, _, _)
AddLimbs(x, y, i, carry) ==
    IF i > NLimbs THEN <<>>
    ELSE <<(x[i] + y[i] + carry) % LimbBase>>
         \o AddLimbs(x, y, i + 1, (x[i] + y[i] + carry) \div LimbBase)

AddMag(x, y) == AddLimbs(x, y, 1, 0)

RECURSIVE SubLimbs(_, _, _, _)
SubLimbs(x, y, i, borrow) ==
    IF i > NLimbs THEN <<>>
    ELSE <<(x[i] - y[i] - borrow + LimbBase) % LimbBase>>
         \o SubLimbs(x, y, i + 1, IF x[i] - y[i] - borrow < 0 THEN 1 ELSE 0)

\* x - y for x >= y
SubMag(x, y) == SubLimbs(x, y, 1, 0)

\* -1, 0, 1 as x < y, x = y, x > y
CmpMag(x, y) ==
    LET D == {i \in 1..NLimbs : x[i] # y[i]}
    IN  IF D = {} THEN 0 ELSE IF x[Max(D)] > y[Max(D)] THEN 1 ELSE -1

RECURSIVE MulLimbs(_, _, _, _)
MulLimbs(x, k, i, carry) ==
    IF i > NLimbs THEN <<>>
    ELSE <<(x[i] * k + carry) % LimbBase>>
         \o MulLimbs(x, k, i + 1, (x[i] * k + carry) \div LimbBase)

\* x * k for a small integer k
MulMag(x, k) == MulLimbs(x, k, 1, 0)

RECURSIVE DivLimbs(_, _, _, _, _)
DivLimbs(x, d, i, rem, q) ==
    IF i = 0 THEN [q |-> q, rem |-> rem]
    ELSE DivLimbs(x, d, i - 1, (rem * LimbBase + x[i]) % d,
                  <<(rem * LimbBase + x[i]) \div d>> \o q)

\* quotient and remainder of x by the small integer d
DivMag(x, d) == DivLimbs(x, d, NLimbs, 0, <<>>)

\* number of significant bits of x
BitLen(x) ==
    LET N == {i \in 1..NLimbs : x[i] # 0}
    IN  IF N = {} THEN 0
        ELSE LimbBits * (Max(N) - 1)
             + (CHOOSE b \in 1..LimbBits : 2^(b-1) <= x[Max(N)] /\ x[Max(N)] < 2^b)

\* bit j of x, bit 0 the least significant
Bit(x, j) == (x[(j \div LimbBits) + 1] \div 2^(j % LimbBits)) % 2

\* some bit below bit k is set
LowBits(x, k) ==
    \/ \E i \in 1..(k \div LimbBits) : x[i] # 0
    \/ x[(k \div LimbBits) + 1] % 2^(k % LimbBits) # 0

ClearLow(x, k) ==
    [i \in 1..NLimbs |->
        IF i <= k \div LimbBits THEN 0
        ELSE IF i = (k \div LimbBits) + 1 THEN x[i] - (x[i] % 2^(k % LimbBits))
        ELSE x[i]]

Pow2Mag(k) ==
    [i \in 1..NLimbs |-> IF i = (k \div LimbBits) + 1 THEN 2^(k % LimbBits) ELSE 0]

\* x rounded to Precision significant bits, ties to even; sticky says that
\* the exact value lies strictly above x (a division left a remainder).
RoundMag(x, sticky) ==
    LET k == BitLen(x) - Precision
    IN  IF k <= 0 THEN x
        ELSE LET up == /\ Bit(x, k-1) = 1
                       /\ (LowBits(x, k-1) \/ sticky \/ Bit(x, k) = 1)
             IN  IF up THEN AddMag(ClearLow(x, k), Pow2Mag(k)) ELSE ClearLow(x, k)

Double(neg, mag) == [neg |-> neg /\ mag # ZeroMag, mag |-> mag]

\* float(n) for an integer 0 <= n < LimbBase
FromInt(n) == Double(FALSE, [i \in 1..NLimbs |-> IF i = NLimbs THEN n ELSE 0])

FNeg(a) == Double(~a.neg, a.mag)

\* a + b
FAdd(a, b) ==
    IF a.neg = b.neg THEN Double(a.neg, RoundMag(AddMag(a.mag, b.mag), FALSE))
    ELSE IF CmpMag(a.mag, b.mag) >= 0
         THEN Double(a.neg, RoundMag(SubMag(a.mag, b.mag), FALSE))
         ELSE Double(b.neg, RoundMag(SubMag(b.mag, a.mag), FALSE))

\* a - b
FSub(a, b) == FAdd(a, FNeg(b))

\* a * float(k) for an integer k >= 0
FMulInt(a, k) == Double(a.neg, RoundMag(MulMag(a.mag, k), FALSE))

\* a / float(d) for an integer d > 0
FDivInt(a, d) ==
    LET qr == DivMag(a.mag, d)
    IN  Double(a.neg, RoundMag(qr.q, qr.rem # 0))

\* a * 0.5
FHalf(a) == FDivInt(a, 2)

\* a >= b
FGe(a, b) ==
    IF a.neg # b.neg THEN b.neg
    ELSE IF a.neg THEN CmpMag(a.mag, b.mag) <= 0
    ELSE CmpMag(a.mag, b.mag) >= 0

\* max(a, b) of Python: a unless b > a
FMax(a, b) == IF FGe(a, b) THEN a ELSE b

\* int(a) for a >= 0
FloorInt(a) == a.mag[NLimbs]

\* the float written n/d in decimal, e.g. Dec(14, 10) for the literal 1.4
Dec(n, d) == FDivInt(FromInt(n), d)

(***************************************************************************)
(* Python str                                                              *)
(***************************************************************************)
UpperCase == <<"A", "B", "C", "D", "E", "F", "G", "H", "I", "J", "K", "L", "M",
               "N", "O", "P", "Q", "R", "S", "T", "U", "V", "W", "X", "Y", "Z">>

LowerCase == <<"a", "b", "c", "d", "e", "f", "g", "h", "i", "j", "k", "l", "m",
               "n", "o", "p", "q", "r", "s", "t", "u", "v", "w", "x", "y", "z">>

LowerChar(c) ==
    IF \E i \in 1..26 : UpperCase[i] = c
    THEN LowerCase[CHOOSE i \in 1..26 : UpperCase[i] = c] ELSE c

UpperChar(c) ==
    IF \E i \in 1..26 : LowerCase[i] = c
    THEN UpperCase[CHOOSE i \in 1..26 : LowerCase[i] = c] ELSE c

IsLetter(c) == \E i \in 1..26 : UpperCase[i] = c \/ LowerCase[i] = c

IsSpace(c) == c \in {" ", "\t", "\n", "\r"}

CharAt(s, i) == SubSeq(s, i, i)

\* s.lower(), character by character
RECURSIVE Lower(_)
Lower(s) ==
    IF Len(s) = 0 THEN ""
    ELSE IF Len(s) = 1 THEN LowerChar(s)
    ELSE Lower(SubSeq(s, 1, Len(s) \div 2)) \o Lower(SubSeq(s, (Len(s) \div 2) + 1, Len(s)))

\* p in t
Contains(t, p) ==
    \E i \in 1..(Len(t) - Len(p) + 1) : SubSeq(t, i, i + Len(p) - 1) = p

\* len(s.split())
WordCount(s) ==
    Cardinality({i \in 1..Len(s) :
        /\ ~IsSpace(CharAt(s, i))
        /\ (i = 1 \/ IsSpace(CharAt(s, i - 1)))})

\* sep.join(parts)
RECURSIVE Join(_, _)
Join(sep, parts) ==
    IF parts = <<>> THEN ""
    ELSE IF Len(parts) = 1 THEN parts[1]
    ELSE parts[1] \o sep \o Join(sep, Tail(parts))

\* s.replace("_", " ").title(): a letter is upper case after a non-letter
\* and lower case after a letter
RECURSIVE TitleRange(_, _, _)
TitleRange(s, lo, hi) ==
    IF lo > hi THEN ""
    ELSE IF lo = hi
    THEN LET c == IF CharAt(s, lo) = "_" THEN " " ELSE CharAt(s, lo)
         IN  IF lo > 1 /\ IsLetter(CharAt(s, lo - 1)) THEN LowerChar(c) ELSE UpperChar(c)
    ELSE TitleRange(s, lo, (lo + hi) \div 2) \o TitleRange(s, ((lo + hi) \div 2) + 1, hi)

Title(s) == TitleRange(s, 1, Len(s))

(***************************************************************************)
(* risk_service.py: the pattern registry                                   *)
(***************************************************************************)
HIGH_RISK_PATTERNS == <<
    [pattern |-> "waive all rights", category |-> "rights_waiver", severity |-> 10],
    [pattern |-> "irrevocably waive", category |-> "rights_waiver", severity |-> 10],
    [pattern |-> "no right to", category |-> "rights_waiver", severity |-> 9],
    [pattern |-> "forfeit all", category |-> "rights_waiver", severity |-> 9],
    [pattern |-> "relinquish", category |-> "rights_waiver", severity |-> 8],
    [pattern |-> "sole discretion", category |-> "one_sided_control", severity |-> 9],
    [pattern |-> "absolute discretion", category |-> "one_sided_control", severity |-> 9],
    [pattern |-> "at our discretion", category |-> "one_sided_control", severity |-> 8],
    [pattern |-> "without your consent", category |-> "one_sided_control", severity |-> 9],
    [pattern |-> "unilaterally", category |-> "one_sided_control", severity |-> 8],
    [pattern |-> "no refund", category |-> "financial_risk", severity |-> 9],
    [pattern |-> "non-refundable", category |-> "financial_risk", severity |-> 8],
    [pattern |-> "unlimited liability", category |-> "financial_risk", severity |-> 10],
    [pattern |-> "personal liability", category |-> "financial_risk", severity |-> 8],
    [pattern |-> "joint and several", category |-> "financial_risk", severity |-> 7],
    [pattern |-> "irrevocable", category |-> "irrevocable_terms", severity |-> 9],
    [pattern |-> "perpetual license", category |-> "irrevocable_terms", severity |-> 8],
    [pattern |-> "in perpetuity", category |-> "irrevocable_terms", severity |-> 8],
    [pattern |-> "forever", category |-> "irrevocable_terms", severity |-> 7],
    [pattern |-> "non-negotiable", category |-> "non_negotiable", severity |-> 9],
    [pattern |-> "take it or leave", category |-> "non_negotiable", severity |-> 9],
    [pattern |-> "absolute obligation", category |-> "non_negotiable", severity |-> 8],
    [pattern |-> "without notice", category |-> "due_process", severity |-> 9],
    [pattern |-> "without prior notice", category |-> "due_process", severity |-> 9],
    [pattern |-> "immediate termination", category |-> "due_process", severity |-> 8],
    [pattern |-> "terminate immediately", category |-> "due_process", severity |-> 8],
    [pattern |-> "assign all rights", category |-> "ip_risk", severity |-> 9],
    [pattern |-> "all inventions", category |-> "ip_risk", severity |-> 8],
    [pattern |-> "worldwide exclusive", category |-> "ip_risk", severity |-> 8],
    [pattern |-> "all intellectual property", category |-> "ip_risk", severity |-> 8],
    [pattern |-> "any and all competition", category |-> "non_compete", severity |-> 9],
    [pattern |-> "any competing activity", category |-> "non_compete", severity |-> 8],
    [pattern |-> "worldwide non-compete", category |-> "non_compete", severity |-> 9],
    [pattern |-> "indefinite non-compete", category |-> "non_compete", severity |-> 9]
>>

MEDIUM_RISK_PATTERNS == <<
    [pattern |-> "reasonable efforts", category |-> "vague_obligation", severity |-> 6],
    [pattern |-> "commercially reasonable", category |-> "vague_obligation", severity |-> 5],
    [pattern |-> "best efforts", category |-> "vague_obligation", severity |-> 5],
    [pattern |-> "as determined by", category |-> "vague_obligation", severity |-> 6],
    [pattern |-> "at the company's option", category |-> "vague_obligation", severity |-> 6],
    [pattern |-> "limited license", category |-> "limited_rights", severity |-> 5],
    [pattern |-> "may terminate", category |-> "conditional_risk", severity |-> 5],
    [pattern |-> "subject to change", category |-> "conditional_risk", severity |-> 6],
    [pattern |-> "reserves the right", category |-> "conditional_risk", severity |-> 6],
    [pattern |-> "at our discretion", category |-> "conditional_risk", severity |-> 6],
    [pattern |-> "partial refund", category |-> "financial_risk", severity |-> 5],
    [pattern |-> "pro-rata", category |-> "financial_risk", severity |-> 4],
    [pattern |-> "variable fee", category |-> "financial_risk", severity |-> 5],
    [pattern |-> "additional charges", category |-> "financial_risk", severity |-> 6],
    [pattern |-> "late payment penalty", category |-> "financial_risk", severity |-> 6],
    [pattern |-> "share your data", category |-> "data_risk", severity |-> 6],
    [pattern |-> "third party access", category |-> "data_risk", severity |-> 6],
    [pattern |-> "data retention", category |-> "data_risk", severity |-> 5],
    [pattern |-> "limited liability", category |-> "liability", severity |-> 5],
    [pattern |-> "cap on liability", category |-> "liability", severity |-> 5],
    [pattern |-> "exclusion of damages", category |-> "liability", severity |-> 6]
>>

LOW_RISK_PATTERNS == <<
    [pattern |-> "mutual agreement", category |-> "balanced_terms", severity |-> 2],
    [pattern |-> "both parties", category |-> "balanced_terms", severity |-> 1],
    [pattern |-> "30 days notice", category |-> "fair_process", severity |-> 2],
    [pattern |-> "written notice", category |-> "fair_process", severity |-> 2],
    [pattern |-> "reasonable notice", category |-> "fair_process", severity |-> 2],
    [pattern |-> "either party", category |-> "balanced_terms", severity |-> 1],
    [pattern |-> "mutual consent", category |-> "balanced_terms", severity |-> 1]
>>

\* the keys of RISK_WEIGHT, in the order of the dict
CATEGORIES == <<
    "rights_waiver", "one_sided_control", "financial_risk", "irrevocable_terms",
    "non_negotiable", "due_process", "ip_risk", "non_compete",
    "vague_obligation", "limited_rights", "conditional_risk", "data_risk",
    "liability", "balanced_terms", "fair_process"
>>

\* the weight literals of RISK_WEIGHT, in tenths: 15 stands for 1.5
WEIGHT_TENTHS ==
    ("rights_waiver" :> 15) @@
    ("one_sided_control" :> 14) @@
    ("financial_risk" :> 13) @@
    ("irrevocable_terms" :> 13) @@
    ("non_negotiable" :> 12) @@
    ("due_process" :> 12) @@
    ("ip_risk" :> 13) @@
    ("non_compete" :> 14) @@
    ("vague_obligation" :> 9) @@
    ("limited_rights" :> 8) @@
    ("conditional_risk" :> 9) @@
    ("data_risk" :> 10) @@
    ("liability" :> 10) @@
    ("balanced_terms" :> 5) @@
    ("fair_process" :> 5)

\* RISK_WEIGHT: each literal as the float Python reads it
RISK_WEIGHT == [c \in DOMAIN WEIGHT_TENTHS |-> Dec(WEIGHT_TENTHS[c], 10)]

\* RISK_WEIGHT.get(category, default)
WeightOf(category, default) ==
    IF category \in DOMAIN RISK_WEIGHT THEN RISK_WEIGHT[category] ELSE default

Indicator(e) ==
    [pattern_matched |-> e.pattern, risk_category |-> e.category,
     severity_score |-> e.severity]

(***************************************************************************)
(* risk_service.py: _evaluate_clause_risk                                  *)
(***************************************************************************)
\* the entries of a table whose pattern is in text_lower, in table order:
\* those for which the body of the loop over the table is run
Hits(table, text_lower) ==
    SelectSeq(table, LAMBDA e : Contains(text_lower, e.pattern))

\* for pattern, category, severity in HIGH_RISK_PATTERNS: if pattern in text_lower: ...
RECURSIVE HighLoop(_, _, _)
HighLoop(hits, k, acc) ==
    IF k > Len(hits) THEN acc
    ELSE HighLoop(hits, k + 1,
             [raw_score |-> FAdd(acc.raw_score,
                 FMulInt(WeightOf(hits[k].category, Dec(10, 10)), hits[k].severity)),
              indicators |-> Append(acc.indicators, Indicator(hits[k]))])

\* a faulty medium loop, counting medium patterns at full weight
RECURSIVE MediumLoopFullWeight(_, _, _)
MediumLoopFullWeight(hits, k, acc) ==
    IF k > Len(hits) THEN acc
    ELSE MediumLoopFullWeight(hits, k + 1,
             [raw_score |-> FAdd(acc.raw_score,
                 FMulInt(WeightOf(hits[k].category, Dec(10, 10)), hits[k].severity)),
              indicators |-> Append(acc.indicators, Indicator(hits[k]))])

\* a faulty medium loop, adding to the score without recording an indicator
RECURSIVE MediumLoopUnrecorded(_, _, _)
MediumLoopUnrecorded(hits, k, acc) ==
    IF k > Len(hits) THEN acc
    ELSE MediumLoopUnrecorded(hits, k + 1,
             [raw_score |-> FAdd(acc.raw_score,
                 FHalf(FMulInt(WeightOf(hits[k].category, Dec(10, 10)), hits[k].severity))),
              indicators |-> acc.indicators])

\* for pattern, category, severity in MEDIUM_RISK_PATTERNS: if pattern in text_lower: ...
RECURSIVE MediumLoop(_, _, _)
MediumLoop(hits, k, acc) ==
    IF k > Len(hits) THEN acc
    ELSE MediumLoop(hits, k + 1,
             [raw_score |-> FAdd(acc.raw_score,
                 FHalf(FMulInt(WeightOf(hits[k].category, Dec(10, 10)), hits[k].severity))),
              indicators |-> Append(acc.indicators, Indicator(hits[k]))])

\* a faulty low loop, adding the balancing patterns instead of subtracting
RECURSIVE LowLoopAdding(_, _, _)
LowLoopAdding(hits, k, acc) ==
    IF k > Len(hits) THEN acc
    ELSE LowLoopAdding(hits, k + 1,
             [raw_score |-> FAdd(acc.raw_score,
                 FMulInt(WeightOf(hits[k].category, Dec(5, 10)), hits[k].severity)),
              indicators |-> acc.indicators])

\* a faulty low loop, recording an indicator for a balancing pattern
RECURSIVE LowLoopRecording(_, _, _)
LowLoopRecording(hits, k, acc) ==
    IF k > Len(hits) THEN acc
    ELSE LowLoopRecording(hits, k + 1,
             [raw_score |-> FSub(acc.raw_score,
                 FMulInt(WeightOf(hits[k].category, Dec(5, 10)), hits[k].severity)),
              indicators |-> Append(acc.indicators, Indicator(hits[k]))])

\* for pattern, category, severity in LOW_RISK_PATTERNS: if pattern in text_lower: ...
RECURSIVE LowLoop(_, _, _)
LowLoop(hits, k, acc) ==
    IF k > Len(hits) THEN acc
    ELSE LowLoop(hits, k + 1,
             [raw_score |-> FSub(acc.raw_score,
                 FMulInt(WeightOf(hits[k].category, Dec(5, 10)), hits[k].severity)),
              indicators |-> acc.indicators])

\* raw_score = max(0.0, raw_score)
ClampRaw(raw_score) == FMax(FromInt(0), raw_score)

Clamped(acc) == [raw_score |-> ClampRaw(acc.raw_score), indicators |-> acc.indicators]

\* the three loops over text_lower and the clamp
ScanLower(text_lower) ==
    Clamped(LowLoop(Hits(LOW_RISK_PATTERNS, text_lower), 1,
                MediumLoop(Hits(MEDIUM_RISK_PATTERNS, text_lower), 1,
                    HighLoop(Hits(HIGH_RISK_PATTERNS, text_lower), 1,
                        [raw_score |-> FromInt(0), indicators |-> <<>>]))))

\* text_lower = text.lower(), then raw_score and indicators as at line 229
Scan(t) == ScanLower(Lower(t))

\* has_critical = any(ind["severity_score"] >= 9 for ind in indicators)
HasCritical(indicators) ==
    \E i \in 1..Len(indicators) : indicators[i].severity_score >= 9

\* a faulty classification, by the raw score alone
ClassifyLevelByScore(raw_score, indicators) ==
    IF FGe(raw_score, FromInt(12)) THEN "High"
    ELSE IF FGe(raw_score, FromInt(5)) THEN "Medium"
    ELSE "Low"

\* if raw_score >= 12 or has_critical: ... elif raw_score >= 5: ... else: ...
ClassifyLevel(raw_score, indicators) ==
    IF FGe(raw_score, FromInt(12)) \/ HasCritical(indicators) THEN "High"
    ELSE IF FGe(raw_score, FromInt(5)) THEN "Medium"
    ELSE "Low"

\* a faulty normalization without the cap at 100
NormalizeUncapped(raw_score) == FloorInt(FMulInt(FDivInt(raw_score, 30), 100))

\* normalized_score = min(100, int((raw_score / 30.0) * 100))
Normalize(raw_score) == MinInt(100, FloorInt(FMulInt(FDivInt(raw_score, 30), 100)))

(***************************************************************************)
(* risk_service.py: _generate_risk_reason                                  *)
(***************************************************************************)
\* sorted(indicators, key=severity_score, reverse=True)[:3]; the sort is stable
Top3(indicators) ==
    LET n == Len(indicators)
        Before(j, i) ==
            \/ indicators[j].severity_score > indicators[i].severity_score
            \/ /\ indicators[j].severity_score = indicators[i].severity_score
               /\ j < i
        Rank(i) == Cardinality({j \in 1..n : Before(j, i)}) + 1
    IN  [k \in 1..MinInt(3, n) |-> indicators[CHOOSE i \in 1..n : Rank(i) = k]]

\* list(set_of_categories): a set of str is iterated in the order of the
\* hashes, which the interpreter salts anew in every process (hash_seed).
SetOrder(seed) ==
    IF seed = 0 THEN CATEGORIES
    ELSE [i \in 1..Len(CATEGORIES) |-> CATEGORIES[Len(CATEGORIES) + 1 - i]]

ListOfSet(S, seed) == SelectSeq(SetOrder(seed), LAMBDA c : c \in S)

Quoted(s) == "'" \o s \o "'"

\* ", ".join(f"'{i['pattern_matched']}'" for i in top)
PatternList(top) ==
    Join(", ", [k \in 1..Len(top) |-> Quoted(top[k].pattern_matched)])

\* list({i["risk_category"] for i in top})
CategorySet(top) ==
    ListOfSet({top[k].risk_category : k \in 1..Len(top)}, hash_seed)

\* ", ".join(c.replace("_", " ").title() for c in category_set)
CategoryStr(category_set) ==
    Join(", ", [k \in 1..Len(category_set) |-> Title(category_set[k])])

\* the three messages of _generate_risk_reason
ReasonText(risk_level, pattern_list, category_str) ==
        CASE risk_level = "High" ->
                "This clause contains highly concerning language: "
                \o pattern_list \o ". "
                \o "Risk categories identified: " \o category_str \o ". "
                \o "These terms significantly favor one party and may expose you to "
                \o "legal or financial harm. Strongly recommend reviewing with a lawyer."
          [] risk_level = "Medium" ->
                "This clause contains moderately risky language: "
                \o pattern_list \o ". "
                \o "Risk categories: " \o category_str \o ". "
                \o "The terms may be vague or conditionally unfavorable. "
                \o "Consider requesting clearer, more balanced language."
          [] risk_level = "Low" ->
                "Minor concerns detected: " \o pattern_list \o ". "
                \o "Overall language appears reasonable. "
                \o "Review in context to ensure terms align with your expectations."
          [] OTHER -> "Risk assessment not available."

ReasonOfTop(risk_level, top) ==
    ReasonText(risk_level, PatternList(top), CategoryStr(CategorySet(top)))

_generate_risk_reason(risk_level, indicators, raw_score) ==
    IF indicators = <<>>
    THEN "No significant risk patterns detected. "
         \o "The language appears balanced and standard."
    ELSE ReasonOfTop(risk_level, Top3(indicators))

\* text.lower() raises AttributeError when text is not a str
Raises(t) == t = None

\* the tuple returned, with the local raw_score beside it
Returned(risk_level, scan) ==
    [risk_level |-> risk_level,
     risk_reason |-> _generate_risk_reason(risk_level, scan.indicators, scan.raw_score),
     risk_indicators |-> scan.indicators,
     risk_score |-> Normalize(scan.raw_score),
     raw_score |-> scan.raw_score]

LevelAndScan(scan) == Returned(ClassifyLevel(scan.raw_score, scan.indicators), scan)

_evaluate_clause_risk(t) == LevelAndScan(Scan(t))

(***************************************************************************)
(* clause_service.py: the keyword table and the classifier                 *)
(***************************************************************************)
\* CLAUSE_KEYWORD_MAP, in the insertion order of the dict literal
CLAUSE_KEYWORD_MAP == <<
    [clause_type |-> "Confidentiality",
     keywords |-> <<"confidential", "non-disclosure", "nda", "proprietary information", "trade secret", "secret", "disclose", "disclosure", "classified">>],
    [clause_type |-> "Payment",
     keywords |-> <<"payment", "invoice", "fee", "amount due", "billing", "compensation", "remuneration", "salary", "cost", "price", "charges", "installment", "refund", "revenue share", "royalty">>],
    [clause_type |-> "Termination",
     keywords |-> <<"terminat", "end of agreement", "cancel", "expir", "breach", "notice period", "wind down", "dissolution", "rescind", "void", "cessation">>],
    [clause_type |-> "Liability",
     keywords |-> <<"liability", "liable", "damages", "indemnif", "hold harmless", "limitation of liability", "consequential", "punitive", "negligence">>],
    [clause_type |-> "Intellectual Property",
     keywords |-> <<"intellectual property", "ip rights", "copyright", "trademark", "patent", "trade dress", "invention", "proprietary", "work for hire", "moral rights", "license", "assignment of rights">>],
    [clause_type |-> "Governing Law",
     keywords |-> <<"governing law", "jurisdiction", "applicable law", "legal venue", "forum", "choice of law", "courts of", "state of", "laws of">>],
    [clause_type |-> "Dispute Resolution",
     keywords |-> <<"arbitration", "mediation", "dispute", "resolution", "adr", "litigation", "legal proceedings", "claim", "settle">>],
    [clause_type |-> "Force Majeure",
     keywords |-> <<"force majeure", "act of god", "unforeseen", "beyond control", "pandemic", "natural disaster", "war", "strike", "government order", "epidemic">>],
    [clause_type |-> "Amendment",
     keywords |-> <<"amendment", "modification", "changes to", "update to agreement", "addendum", "supplement", "revised", "restate">>],
    [clause_type |-> "Warranty",
     keywords |-> <<"warranty", "guarantee", "represent", "warrant", "merchantability", "fitness", "as-is", "no warranty", "disclaimer">>],
    [clause_type |-> "Indemnification",
     keywords |-> <<"indemnif", "indemnity", "defend", "hold harmless", "third-party claims", "losses">>],
    [clause_type |-> "Non-Compete",
     keywords |-> <<"non-compete", "non compete", "competition", "competing business", "restrictive covenant", "restraint of trade">>],
    [clause_type |-> "Non-Solicitation",
     keywords |-> <<"non-solicitation", "solicit", "poach", "hire away", "recruit", "employees of">>],
    [clause_type |-> "Data Privacy",
     keywords |-> <<"personal data", "gdpr", "ccpa", "data protection", "privacy policy", "data processing", "data subject", "pii", "data breach", "sensitive information">>],
    [clause_type |-> "Assignment",
     keywords |-> <<"assignment", "assign", "transfer rights", "delegate", "novation", "successor">>],
    [clause_type |-> "Severability",
     keywords |-> <<"severability", "severable", "invalid provision", "unenforceable", "remaining provisions">>],
    [clause_type |-> "Entire Agreement",
     keywords |-> <<"entire agreement", "supersedes", "whole agreement", "prior understandings", "merger clause", "integration clause">>]
>>

\* score of one category: for kw in keywords: if kw in sentence_lower: score += 1
KeywordScore(sentence_lower, keywords) ==
    Len(SelectSeq(keywords, LAMBDA kw : Contains(sentence_lower, kw)))

\* the dict scores, as the list of its items in insertion order: a category
\* is inserted when its turn comes in CLAUSE_KEYWORD_MAP.items(), if score > 0
ScoreItems(sentence_lower) ==
    SelectSeq([c \in 1..Len(CLAUSE_KEYWORD_MAP) |->
                  [key |-> CLAUSE_KEYWORD_MAP[c].clause_type,
                   value |-> KeywordScore(sentence_lower, CLAUSE_KEYWORD_MAP[c].keywords)]],
              LAMBDA item : item.value > 0)

\* the key returned by max(d, key=d.get) with a dict of >= 1 item: the
\* first key, in insertion order, whose value no other key exceeds
MaxKey(items) ==
    LET best == Max({items[i].value : i \in 1..Len(items)})
        first == CHOOSE i \in 1..Len(items) :
                     /\ items[i].value = best
                     /\ \A j \in 1..(i - 1) : items[j].value # best
    IN  items[first].key

\* a faulty max: of the keys with the greatest value, the last inserted
MaxKeyLast(items) ==
    LET best == Max({items[i].value : i \in 1..Len(items)})
        last == CHOOSE i \in 1..Len(items) :
                    /\ items[i].value = best
                    /\ \A j \in (i + 1)..Len(items) : items[j].value # best
    IN  items[last].key

\* a faulty classifier in which ties go to the category listed last
DetectLastOfTied(sentence) ==
    LET scores == ScoreItems(Lower(sentence))
    IN  IF scores = <<>> THEN None ELSE MaxKeyLast(scores)

_detect_clause_type(sentence) ==
    LET scores == ScoreItems(Lower(sentence))
    IN  IF scores = <<>> THEN None ELSE MaxKey(scores)

\* _classify_sentences: the sentences of a known type, with their type
RECURSIVE _classify_sentences(_)
_classify_sentences(sents) ==
    IF sents = <<>> THEN <<>>
    ELSE LET clause_type == _detect_clause_type(Head(sents))
         IN  (IF clause_type # None
              THEN <<[sentence |-> Head(sents), clause_type |-> clause_type]>>
              ELSE <<>>) \o _classify_sentences(Tail(sents))

(***************************************************************************)
(* clause_service.py: _merge_adjacent_clauses and _assign_metadata         *)
(***************************************************************************)
Block(current_type, current_texts) ==
    [clause_type |-> current_type, merged_text |-> Join(" ", current_texts)]

\* the loop over classified[1:], from item i on, and the final flush
RECURSIVE MergeLoop(_, _, _, _, _)
MergeLoop(items, i, current_type, current_texts, out) ==
    IF i > Len(items) THEN Append(out, Block(current_type, current_texts))
    ELSE IF items[i].clause_type = current_type
         THEN MergeLoop(items, i + 1, current_type,
                        Append(current_texts, items[i].sentence), out)
         ELSE MergeLoop(items, i + 1, items[i].clause_type, <<items[i].sentence>>,
                        Append(out, Block(current_type, current_texts)))

\* a faulty merge that makes one block of all the sentences, whatever their
\* types
MergeEverything(items) ==
    IF items = <<>> THEN <<>>
    ELSE <<Block(items[1].clause_type, [i \in 1..Len(items) |-> items[i].sentence])>>

\* a faulty merge that makes one block of every sentence
MergeNothing(items) ==
    [i \in 1..Len(items) |-> Block(items[i].clause_type, <<items[i].sentence>>)]

_merge_adjacent_clauses(items) ==
    IF items = <<>> THEN <<>>
    ELSE MergeLoop(items, 2, items[1].clause_type, <<items[1].sentence>>, <<>>)

\* a faulty record, created with a risk level already set
ClauseRecordPreScored(position, clause_type, original_text, word_count) ==
    [clause_id            |-> position,
     clause_type          |-> clause_type,
     original_text        |-> original_text,
     simplified_text      |-> None,
     risk_level           |-> "Low",
     risk_reason          |-> None,
     risk_indicators      |-> <<>>,
     risk_score           |-> 0,
     rag_context          |-> None,
     suggestion           |-> None,
     suggestion_status    |-> "pending",
     edited_suggestion    |-> None,
     edit_log             |-> <<>>,
     position_in_document |-> position,
     word_count           |-> word_count]

\* the dict built by _assign_metadata.  clause_id is str(uuid.uuid4()): the
\* identifiers drawn in one run are distinct, and stand here as 1, 2, ...
ClauseRecord(position, clause_type, original_text, word_count) ==
    [clause_id            |-> position,
     clause_type          |-> clause_type,
     original_text        |-> original_text,
     simplified_text      |-> None,
     risk_level           |-> None,
     risk_reason          |-> None,
     risk_indicators      |-> <<>>,
     risk_score           |-> NoScore,
     rag_context          |-> None,
     suggestion           |-> None,
     suggestion_status    |-> "pending",
     edited_suggestion    |-> None,
     edit_log             |-> <<>>,
     position_in_document |-> position,
     word_count           |-> word_count]

\* a faulty numbering, enumerate(merged) without start=1
AssignMetadataFromZero(blocks) ==
    [k \in 1..Len(blocks) |->
        ClauseRecord(k - 1, blocks[k].clause_type, blocks[k].merged_text,
                     WordCount(blocks[k].merged_text))]

\* for position, item in enumerate(merged, start=1)
_assign_metadata(blocks) ==
    [position \in 1..Len(blocks) |->
        ClauseRecord(position, blocks[position].clause_type,
                     blocks[position].merged_text,
                     WordCount(blocks[position].merged_text))]

(***************************************************************************)
(* risk_service.py: assign_risk_levels                                     *)
(***************************************************************************)
\* the em dash of the source is not an ASCII character and is written "--"
ERROR_REASON == "Risk evaluation error -- defaulted to Low"

\* the body of the loop: the try block, and the except block when
\* _evaluate_clause_risk(clause["original_text"]) raises
\* the four assignments of the try block
Scored(clause, r) ==
    [clause EXCEPT !.risk_level = r.risk_level,
                   !.risk_reason = r.risk_reason,
                   !.risk_indicators = r.risk_indicators,
                   !.risk_score = r.risk_score]

\* the four assignments of the except block
Defaulted(clause) ==
    [clause EXCEPT !.risk_level = "Low",
                   !.risk_reason = ERROR_REASON,
                   !.risk_indicators = <<>>,
                   !.risk_score = 0]

ScoreClause(clause) ==
    IF Raises(clause.original_text) THEN Defaulted(clause)
    ELSE Scored(clause, _evaluate_clause_risk(clause.original_text))

\* a faulty loop without the except block: the first failure ends it
AssignUntilFailure(cl) ==
    LET bad == {i \in 1..Len(cl) : Raises(cl[i].original_text)}
    IN  [i \in 1..Len(cl) |->
            IF \E j \in bad : j <= i THEN cl[i] ELSE ScoreClause(cl[i])]

assign_risk_levels(cl) == [i \in 1..Len(cl) |-> ScoreClause(cl[i])]

\* dist[level] = dist.get(level, 0) + 1 for every clause
_get_risk_distribution(cl) ==
    [level \in {"High", "Medium", "Low"} |->
        Cardinality({i \in 1..Len(cl) : cl[i].risk_level = level})]

(***************************************************************************)
(* risk_service.py: compute_contract_risk_score, get_top_risky_clause_type *)
(***************************************************************************)
\* weighted_total after the loop over the clauses from i on
RECURSIVE WeightedTotal(_, _, _)
WeightedTotal(cl, i, weighted_total) ==
    IF i > Len(cl) THEN weighted_total
    ELSE LET score == IF cl[i].risk_score = NoScore THEN 0 ELSE cl[i].risk_score
             level == cl[i].risk_level
             term == IF level = "High" THEN FMulInt(Dec(30, 10), score)
                     ELSE IF level = "Medium" THEN FMulInt(Dec(15, 10), score)
                     ELSE FMulInt(Dec(3, 10), score)
         IN  WeightedTotal(cl, i + 1, FAdd(weighted_total, term))

\* as compute_contract_risk_score without its guard for the empty list: the
\* division by max_possible = 0.0 raises and no score is returned
ComputeScoreUnguarded(cl) ==
    IF cl = <<>> THEN NoScore
    ELSE MinInt(100, FloorInt(FMulInt(FDivInt(WeightedTotal(cl, 1, FromInt(0)),
                                              Len(cl) * 300), 100)))

compute_contract_risk_score(cl) ==
    IF cl = <<>> THEN 0
    ELSE LET weighted_total == WeightedTotal(cl, 1, FromInt(0))
             max_possible == Len(cl) * 300
         IN  MinInt(100, FloorInt(FMulInt(FDivInt(weighted_total, max_possible), 100)))

\* the dict type_risk, as the list of its items in insertion order
RECURSIVE TypeRisk(_, _, _)
TypeRisk(cl, i, items) ==
    IF i > Len(cl) THEN items
    ELSE IF cl[i].risk_level # "High" THEN TypeRisk(cl, i + 1, items)
    ELSE LET ct == cl[i].clause_type
         IN  IF \E k \in 1..Len(items) : items[k].key = ct
             THEN TypeRisk(cl, i + 1,
                      [k \in 1..Len(items) |->
                          IF items[k].key = ct
                          THEN [items[k] EXCEPT !.value = @ + 1] ELSE items[k]])
             ELSE TypeRisk(cl, i + 1, Append(items, [key |-> ct, value |-> 1]))

\* a faulty choice: of the tied types, the one counted last
TopLastOfTied(cl) ==
    LET type_risk == TypeRisk(cl, 1, <<>>)
    IN  IF type_risk = <<>> THEN None ELSE MaxKeyLast(type_risk)

get_top_risky_clause_type(cl) ==
    LET type_risk == TypeRisk(cl, 1, <<>>)
    IN  IF type_risk = <<>> THEN None ELSE MaxKey(type_risk)

(***************************************************************************)
(* SpecRisk: _evaluate_clause_risk applied to one clause text.             *)
(* The texts are the phrases of PHRASES, in their order, joined by spaces. *)
(***************************************************************************)
MaxPhrases == 3

Seeds == {0, 1}

PHRASES == <<
    "waive all rights",      \* high 10, rights_waiver
    "Sole Discretion",       \* high 9, one_sided_control, in capitals
    "without notice",        \* high 9, due_process: 10.8 only
    "relinquish",            \* high 8, rights_waiver: 12.0
    "forever",               \* high 7, irrevocable_terms
    "unlimited liability",   \* high 10, and medium "limited liability"
    "at our discretion",     \* listed in the high and in the medium table
    "may terminate",         \* medium 5
    "reasonable efforts",    \* medium 6
    "share your data",       \* medium 6
    "mutual agreement",      \* low 2
    "both parties",          \* low 1
    "written notice"         \* low 2
>>

RECURSIVE PhrasesOf(_, _)
PhrasesOf(S, i) ==
    IF i > Len(PHRASES) THEN <<>>
    ELSE (IF i \in S THEN <<PHRASES[i]>> ELSE <<>>) \o PhrasesOf(S, i + 1)

RiskTexts ==
    {Join(" ", PhrasesOf(S, 1)) :
        S \in {S \in SUBSET (1..Len(PHRASES)) : Cardinality(S) <= MaxPhrases}}

InitRisk ==
    /\ pc = "start"
    /\ text \in RiskTexts
    /\ result = <<>>
    /\ doc_sents = <<>>
    /\ sentences = <<>>
    /\ classified = <<>>
    /\ merged = <<>>
    /\ clauses = <<>>
    /\ overall_risk_score = NoScore
    /\ top_risky_type = None
    /\ hash_seed \in Seeds
    /\ StoreIdle

Evaluate ==
    /\ pc = "start"
    /\ ~Raises(text)
    /\ result' = _evaluate_clause_risk(text)
    /\ pc' = "done"
    /\ UNCHANGED <<store_vars, text, doc_sents, sentences, classified, merged, clauses,
                   overall_risk_score, top_risky_type, hash_seed>>

NextRisk == Evaluate

SpecRisk == InitRisk /\ [][NextRisk]_vars

(***************************************************************************)
(* What the claims compare the code with: the score in exact arithmetic.   *)
(***************************************************************************)
Matched(table, t) ==
    LET text_lower == Lower(t)
    IN  {i \in 1..Len(table) : Contains(text_lower, table[i].pattern)}

\* severity x category_weight of entry i, in tenths
Points(table, i) == table[i].severity * WEIGHT_TENTHS[table[i].category]

RECURSIVE SumPoints(_, _)
SumPoints(table, S) ==
    IF S = {} THEN 0
    ELSE LET i == CHOOSE i \in S : TRUE
         IN  Points(table, i) + SumPoints(table, S \ {i})

\* max(0, high + medium/2 - low) in twentieths, every product exact
ExactRaw20(t) ==
    LET h == 2 * SumPoints(HIGH_RISK_PATTERNS, Matched(HIGH_RISK_PATTERNS, t))
        m == SumPoints(MEDIUM_RISK_PATTERNS, Matched(MEDIUM_RISK_PATTERNS, t))
        l == 2 * SumPoints(LOW_RISK_PATTERNS, Matched(LOW_RISK_PATTERNS, t))
    IN  IF h + m - l < 0 THEN 0 ELSE h + m - l

\* the float d is n/20 up to the rounding of the float operations (2^-40)
CloseTo(d, n) ==
    LET x == MulMag(d.mag, 20)
        y == FromInt(n).mag
        diff == IF CmpMag(x, y) >= 0 THEN SubMag(x, y) ELSE SubMag(y, x)
    IN  ~d.neg /\ BitLen(diff) <= LimbBits * FracLimbs - 40

\* the float d is >= the integer n, for d >= 0
AtLeast(d, n) == ~d.neg /\ d.mag[NLimbs] >= n

LevelRank(level) == CASE level = "Low" -> 1 [] level = "Medium" -> 2 [] level = "High" -> 3

CriticalInText(t) ==
    \/ \E i \in Matched(HIGH_RISK_PATTERNS, t) : HIGH_RISK_PATTERNS[i].severity >= 9
    \/ \E i \in Matched(MEDIUM_RISK_PATTERNS, t) : MEDIUM_RISK_PATTERNS[i].severity >= 9

(***************************************************************************)
(* C1: the level is High iff the clamped raw score is >= 12 or a collected *)
(* indicator has severity >= 9, otherwise Medium iff the raw score is >= 5,*)
(* otherwise Low; a text matching a severity >= 9 pattern is High whatever *)
(* else it matches.                                                        *)
(***************************************************************************)
C1_LevelByThresholds ==
    pc = "done" =>
        LET raw == result.raw_score
            crit == \E k \in 1..Len(result.risk_indicators) :
                        result.risk_indicators[k].severity_score >= 9
        IN  /\ result.risk_level = "High" <=> (AtLeast(raw, 12) \/ crit)
            /\ result.risk_level = "Medium" <=>
                   (~(AtLeast(raw, 12) \/ crit) /\ AtLeast(raw, 5))
            /\ result.risk_level = "Low" <=>
                   (~(AtLeast(raw, 12) \/ crit) /\ ~AtLeast(raw, 5))
            /\ CriticalInText(text) => result.risk_level = "High"

\* a critical pattern with balancing patterns: raw score under 12, level High
C1_Witness ==
    /\ pc = "done"
    /\ CriticalInText(text)
    /\ Matched(LOW_RISK_PATTERNS, text) # {}
    /\ ~AtLeast(result.raw_score, 12)
    /\ result.risk_level = "High"

(***************************************************************************)
(* C2: the raw score is max(0, sum of high severity x weight + sum of      *)
(* medium severity x weight x 0.5 - sum of low severity x weight), clamped *)
(* once at the end (equal up to the rounding of the float additions).      *)
(***************************************************************************)
C2_RawScoreFormula ==
    pc = "done" => CloseTo(result.raw_score, ExactRaw20(text))

\* all three tables matched and the score above the clamp
C2_Witness ==
    /\ pc = "done"
    /\ Matched(HIGH_RISK_PATTERNS, text) # {}
    /\ Matched(MEDIUM_RISK_PATTERNS, text) # {}
    /\ Matched(LOW_RISK_PATTERNS, text) # {}
    /\ AtLeast(result.raw_score, 1)

(***************************************************************************)
(* C4: matching one more low-table pattern, the high and medium matches    *)
(* being the same, never raises the raw score or the level.                *)
(***************************************************************************)
C4_BalancingNeverRaises ==
    pc = "done" =>
        \A b \in 1..Len(LOW_RISK_PATTERNS) :
            LET with == Scan(text \o " " \o LOW_RISK_PATTERNS[b].pattern)
            IN  with.indicators = result.risk_indicators =>
                    /\ FGe(result.raw_score, with.raw_score)
                    /\ LevelRank(ClassifyLevel(with.raw_score, with.indicators))
                           <= LevelRank(result.risk_level)

\* one medium pattern alone, and a balancing pattern that lowers its score
C4_Witness ==
    /\ pc = "done"
    /\ Len(result.risk_indicators) = 1
    /\ Matched(MEDIUM_RISK_PATTERNS, text) # {}
    /\ Matched(LOW_RISK_PATTERNS, text) = {}
    /\ \E b \in 1..Len(LOW_RISK_PATTERNS) :
          LET with == Scan(text \o " " \o LOW_RISK_PATTERNS[b].pattern)
          IN  /\ with.indicators = result.risk_indicators
              /\ ~FGe(with.raw_score, result.raw_score)

(***************************************************************************)
(* Spec: the services in the order run by _execute_analysis_pipeline, on   *)
(* the sentence lists that _segment_sentences can return (every sentence   *)
(* has at least MIN_CLAUSE_WORDS words).                                   *)
(***************************************************************************)
MaxSentences == 3

SENTENCES == <<
    \* Payment; High, score 85
    "The Employee shall waive all rights to compensation without notice.",
    \* Termination; Low, score 2
    "Both parties may terminate this agreement with 30 days written notice.",
    \* Termination and Liability tie; High, score 57
    "The Employee shall waive all rights and the Company may terminate without liability.",
    \* Payment once (fee, twice in the text), Liability twice; Medium, score 30
    "Any fee or late fee excludes damages forever when the Contractor is liable.",
    \* no keyword of the table
    "The parties shall meet every month at the main office."
>>

SentenceLists ==
    UNION {{[i \in 1..n |-> SENTENCES[f[i]]] : f \in [1..n -> 1..Len(SENTENCES)]} :
               n \in 0..MaxSentences}

Init ==
    /\ pc = "start"
    /\ text = ""
    /\ result = <<>>
    /\ doc_sents = <<>>
    /\ sentences \in SentenceLists
    /\ classified = <<>>
    /\ merged = <<>>
    /\ clauses = <<>>
    /\ overall_risk_score = NoScore
    /\ top_risky_type = None
    /\ hash_seed \in Seeds
    /\ StoreIdle

\* extract_and_classify_clauses, from the segmented sentences on
ExtractAndClassify ==
    /\ pc = "start"
    /\ classified' = _classify_sentences(sentences)
    /\ merged' = _merge_adjacent_clauses(classified')
    /\ clauses' = _assign_metadata(merged')
    /\ pc' = "extracted"
    /\ UNCHANGED <<store_vars, text, doc_sents, result, sentences, overall_risk_score, top_risky_type, hash_seed>>

AssignRiskLevels ==
    /\ pc = "extracted"
    /\ clauses' = assign_risk_levels(clauses)
    /\ pc' = "scored"
    /\ UNCHANGED <<store_vars, text, doc_sents, result, sentences, classified, merged,
                   overall_risk_score, top_risky_type, hash_seed>>

ComputeContractRiskScore ==
    /\ pc = "scored"
    /\ overall_risk_score' = compute_contract_risk_score(clauses)
    /\ pc' = "computed"
    /\ UNCHANGED <<store_vars, text, doc_sents, result, sentences, classified, merged, clauses,
                   top_risky_type, hash_seed>>

GetTopRiskyClauseType ==
    /\ pc = "computed"
    /\ top_risky_type' = get_top_risky_clause_type(clauses)
    /\ pc' = "aggregated"
    /\ UNCHANGED <<store_vars, text, doc_sents, result, sentences, classified, merged, clauses,
                   overall_risk_score, hash_seed>>

Next ==
    \/ ExtractAndClassify
    \/ AssignRiskLevels
    \/ ComputeContractRiskScore
    \/ GetTopRiskyClauseType

Spec == Init /\ [][Next]_vars

(***************************************************************************)
(* SpecAssign: assign_risk_levels on clause lists that may hold a          *)
(* malformed record, one whose original_text is None: None.lower() raises. *)
(***************************************************************************)
MaxClauses == 3

CANDIDATES == <<
    [clause_type |-> "Payment", original_text |-> SENTENCES[1]],
    [clause_type |-> "Termination", original_text |-> None],
    [clause_type |-> "Termination", original_text |-> SENTENCES[2]],
    [clause_type |-> "Liability", original_text |-> SENTENCES[4]],
    \* raw score 43.1
    [clause_type |-> "Liability", original_text |->
        "The Company may waive all rights and accept unlimited liability at its sole discretion."]
>>

CandidateLists ==
    UNION {{[i \in 1..n |->
                ClauseRecord(i, CANDIDATES[f[i]].clause_type,
                             CANDIDATES[f[i]].original_text,
                             IF CANDIDATES[f[i]].original_text = None THEN 0
                             ELSE WordCount(CANDIDATES[f[i]].original_text))] :
              f \in [1..n -> 1..Len(CANDIDATES)]} : n \in 0..MaxClauses}

InitAssign ==
    /\ pc = "extracted"
    /\ text = ""
    /\ result = <<>>
    /\ doc_sents = <<>>
    /\ sentences = <<>>
    /\ classified = <<>>
    /\ merged = <<>>
    /\ clauses \in CandidateLists
    /\ overall_risk_score = NoScore
    /\ top_risky_type = None
    /\ hash_seed \in Seeds
    /\ StoreIdle

NextAssign == AssignRiskLevels

SpecAssign == InitAssign /\ [][NextAssign]_vars
(***************************************************************************)
(* C3: the risk_score that assign_risk_levels gives a clause is            *)
(* min(100, floor(raw_score / 30.0 * 100)), the quotient and the product   *)
(* being the float operations of the source, and 0 when the evaluation     *)
(* raised; it is an integer in 0..100, and it is 100 when raw_score >= 30. *)
(* The floor of the exact quotient may differ from it by one (it is 35     *)
(* for "without notice", where the score is 36).                           *)
(***************************************************************************)
ExactFloorScore(raw_score) ==
    MinInt(100, DivMag(MulMag(raw_score.mag, 100), 30).q[NLimbs])

ScoreFollowsRaw(risk_score, raw_score) ==
    /\ risk_score = MinInt(100, FMulInt(FDivInt(raw_score, 30), 100).mag[NLimbs])
    /\ risk_score \in 0..100
    /\ AtLeast(raw_score, 30) => risk_score = 100
    /\ risk_score - ExactFloorScore(raw_score) \in {-1, 0, 1}

C5_FailureStaysInOneClause ==
    pc = "scored" =>
        \A i \in 1..Len(clauses) :
            IF clauses[i].original_text = None
            THEN /\ clauses[i].risk_level = "Low"
                 /\ clauses[i].risk_reason = ERROR_REASON
                 /\ clauses[i].risk_indicators = <<>>
                 /\ clauses[i].risk_score = 0
            ELSE LET alone == _evaluate_clause_risk(clauses[i].original_text)
                 IN  /\ clauses[i].risk_level = alone.risk_level
                     /\ clauses[i].risk_reason = alone.risk_reason
                     /\ clauses[i].risk_indicators = alone.risk_indicators
                     /\ clauses[i].risk_score = alone.risk_score

\* a failing clause between two clauses that are scored, the later one High
C5_Witness ==
    /\ pc = "scored"
    /\ Len(clauses) = 3
    /\ clauses[1].original_text # None /\ clauses[1].risk_reason # ERROR_REASON
    /\ clauses[2].original_text = None /\ clauses[2].risk_reason = ERROR_REASON
    /\ clauses[3].original_text # None /\ clauses[3].risk_level = "High"

(***************************************************************************)
(* C6: compute_contract_risk_score returns                                 *)
(* floor(100 * sum(risk_score * w(level)) / (n * 300)) with w = 3.0, 1.5,  *)
(* 0.3, within 0..100, and 0 for the empty list.  With the weights in      *)
(* tenths the quotient is sum(risk_score * w10) / (30 * n).                *)
(***************************************************************************)
RECURSIVE WeightedTenths(_, _)
WeightedTenths(cl, i) ==
    IF i > Len(cl) THEN 0
    ELSE cl[i].risk_score * (CASE cl[i].risk_level = "High" -> 30
                               [] cl[i].risk_level = "Medium" -> 15
                               [] OTHER -> 3)
         + WeightedTenths(cl, i + 1)

C6_AggregateIsFloor ==
    pc \in {"computed", "aggregated"} =>
        overall_risk_score =
            IF clauses = <<>> THEN 0
            ELSE MinInt(100, WeightedTenths(clauses, 1) \div (30 * Len(clauses)))

(***************************************************************************)
(* C7: get_top_risky_clause_type returns None when no clause is High, and  *)
(* otherwise a clause_type with the greatest number of High clauses.       *)
(***************************************************************************)
HighClauses(cl, ct) ==
    {i \in 1..Len(cl) : cl[i].risk_level = "High" /\ cl[i].clause_type = ct}

HighTypes(cl) == {cl[i].clause_type : i \in {j \in 1..Len(cl) : cl[j].risk_level = "High"}}

FirstHigh(cl, ct) == CHOOSE i \in HighClauses(cl, ct) : \A j \in HighClauses(cl, ct) : i <= j

TableIndex(ct) == CHOOSE c \in 1..Len(CLAUSE_KEYWORD_MAP) : CLAUSE_KEYWORD_MAP[c].clause_type = ct

TopIsMaximal ==
    IF HighTypes(clauses) = {} THEN top_risky_type = None
    ELSE /\ top_risky_type \in HighTypes(clauses)
         /\ \A ct \in HighTypes(clauses) :
                Cardinality(HighClauses(clauses, ct))
                    <= Cardinality(HighClauses(clauses, top_risky_type))

TiedWithTop ==
    {ct \in HighTypes(clauses) \ {top_risky_type} :
        Cardinality(HighClauses(clauses, ct))
            = Cardinality(HighClauses(clauses, top_risky_type))}

\* C7 as stated: of the tied types, the one listed first in CLAUSE_KEYWORD_MAP
C7_TieByKeywordTable ==
    pc = "aggregated" =>
        /\ TopIsMaximal
        /\ \A ct \in TiedWithTop : TableIndex(top_risky_type) < TableIndex(ct)

\* C7 amended: of the tied types, the one whose first High clause comes
\* first in the clause list
C7_TieByFirstHighClause ==
    pc = "aggregated" =>
        /\ TopIsMaximal
        /\ \A ct \in TiedWithTop :
               FirstHigh(clauses, top_risky_type) < FirstHigh(clauses, ct)

\* two types tie, and the one returned is listed later in the keyword table
C7_Witness ==
    /\ pc = "aggregated"
    /\ top_risky_type # None
    /\ \E ct \in TiedWithTop : TableIndex(ct) < TableIndex(top_risky_type)

(***************************************************************************)
(* C8: _detect_clause_type scores a category by the number of its distinct *)
(* keywords that are substrings of the lowercased sentence, returns None   *)
(* when every score is 0 (the sentence is dropped), and otherwise the      *)
(* category of maximal score that is listed first in the keyword table.    *)
(***************************************************************************)
KeywordsPresent(sentence_lower, c) ==
    {kw \in {CLAUSE_KEYWORD_MAP[c].keywords[k] :
                 k \in 1..Len(CLAUSE_KEYWORD_MAP[c].keywords)} :
        Contains(sentence_lower, kw)}

\* the pairs <<category index, score>> of a lowercased sentence
CountsLower(sentence_lower) ==
    {<<c, Cardinality(KeywordsPresent(sentence_lower, c))>> :
        c \in 1..Len(CLAUSE_KEYWORD_MAP)}

Counts(sentence) == CountsLower(Lower(sentence))

FirstOfMaximal(counts, p) ==
    /\ p[2] > 0
    /\ \A q \in counts : q[2] <= p[2] /\ (q[1] < p[1] => q[2] < p[2])

HasKeyword(counts) == \E p \in counts : p[2] > 0

\* what the claim gives for one sentence: None, or the category
Expected(counts) ==
    IF ~HasKeyword(counts) THEN None
    ELSE CLAUSE_KEYWORD_MAP[(CHOOSE p \in counts : FirstOfMaximal(counts, p))[1]].clause_type

C8_FirstCategoryOfMaximalScore ==
    pc = "extracted" =>
        LET expected == SelectSeq(
                [i \in 1..Len(sentences) |->
                    [sentence |-> sentences[i],
                     clause_type |-> Expected(Counts(sentences[i]))]],
                LAMBDA item : item.clause_type # None)
        IN  classified = expected

\* a sentence in which two categories tie on the maximal score, and a
\* sentence without any keyword, which is dropped
C8_Witness ==
    /\ pc = "extracted"
    /\ Len(classified) < Len(sentences)
    /\ \E i \in 1..Len(sentences) :
          LET counts == Counts(sentences[i])
          IN  \E p, q \in counts :
                  p[1] < q[1] /\ p[2] = q[2] /\ FirstOfMaximal(counts, p)

(***************************************************************************)
(* C9: _merge_adjacent_clauses gives one block per maximal run of          *)
(* consecutive sentences of the same clause_type, in order, its text the   *)
(* sentences of the run joined by single spaces; no two adjacent blocks    *)
(* have the same type, and each block becomes one clause record.           *)
(***************************************************************************)
RunStarts(items) ==
    {i \in 1..Len(items) : i = 1 \/ items[i].clause_type # items[i - 1].clause_type}

\* the k-th run, as the pair of its first and last index
Run(items, k) ==
    LET lo == CHOOSE i \in RunStarts(items) :
                  Cardinality({j \in RunStarts(items) : j <= i}) = k
        later == {j \in RunStarts(items) : j > lo}
        hi == IF later = {} THEN Len(items)
              ELSE (CHOOSE j \in later : \A m \in later : j <= m) - 1
    IN  <<lo, hi>>

C9_OneBlockPerRun ==
    pc = "extracted" =>
        /\ Len(merged) = Cardinality(RunStarts(classified))
        /\ Len(clauses) = Len(merged)
        /\ \A k \in 1..Len(merged) :
               LET run == Run(classified, k)
               IN  /\ merged[k].clause_type = classified[run[1]].clause_type
                   /\ merged[k].merged_text =
                          Join(" ", [j \in 1..(run[2] - run[1] + 1) |->
                                        classified[run[1] + j - 1].sentence])
        /\ \A k \in 1..(Len(merged) - 1) :
               merged[k].clause_type # merged[k + 1].clause_type

\* three consecutive sentences of one type make one clause
C9_Witness ==
    /\ pc = "extracted"
    /\ Len(classified) = 3
    /\ \A i \in 1..3 : classified[i].clause_type = classified[1].clause_type
    /\ classified[1].sentence # classified[2].sentence
    /\ Len(merged) = 1
    /\ Len(clauses) = 1
    /\ clauses[1].position_in_document = 1

(***************************************************************************)
(* C10: in the list returned by extract_and_classify_clauses the i-th      *)
(* record has position_in_document = i.                                    *)
(***************************************************************************)
C10_PositionIsIndex ==
    pc # "start" =>
        \A i \in 1..Len(clauses) : clauses[i].position_in_document = i

\* a list of three clauses
C10_Witness ==
    /\ pc = "extracted"
    /\ Len(clauses) = 3
    /\ clauses[3].position_in_document = 3

(***************************************************************************)
(* clause_service.py: _preprocess_text                                     *)
(*                                                                         *)
(* The six characters outside ASCII that the source names are written      *)
(* here with six ASCII characters that occur in no other role in a text.   *)
(***************************************************************************)
LEFT_DOUBLE_QUOTE == "<"    \* U+201C
RIGHT_DOUBLE_QUOTE == ">"   \* U+201D
LEFT_SINGLE_QUOTE == "{"    \* U+2018
RIGHT_SINGLE_QUOTE == "}"   \* U+2019
EM_DASH == "~"              \* U+2014
EN_DASH == "^"              \* U+2013

IsDigit(c) == c \in {"0", "1", "2", "3", "4", "5", "6", "7", "8", "9"}

\* "".join(parts[lo..hi])
RECURSIVE ConcatRange(_, _, _)
ConcatRange(parts, lo, hi) ==
    IF lo > hi THEN ""
    ELSE IF lo = hi THEN parts[lo]
    ELSE ConcatRange(parts, lo, (lo + hi) \div 2)
             \o ConcatRange(parts, ((lo + hi) \div 2) + 1, hi)

\* s.replace(old, new) for a single character old
Replace(s, old, new) ==
    ConcatRange([i \in 1..Len(s) |-> IF CharAt(s, i) = old THEN new ELSE CharAt(s, i)],
                1, Len(s))

\* s.strip()
Strip(s) ==
    IF \A i \in 1..Len(s) : IsSpace(CharAt(s, i)) THEN ""
    ELSE LET lead == CHOOSE k \in 0..(Len(s) - 1) :
                         /\ ~IsSpace(CharAt(s, k + 1))
                         /\ \A j \in 1..k : IsSpace(CharAt(s, j))
             trail == CHOOSE k \in 0..(Len(s) - 1) :
                          /\ ~IsSpace(CharAt(s, Len(s) - k))
                          /\ \A j \in 1..k : IsSpace(CharAt(s, Len(s) - j + 1))
         IN  SubSeq(s, lead + 1, Len(s) - trail)

\* the length of the match of \[PAGE \d+\]\n? that starts at j, 0 if none
MarkerLen(s, j) ==
    IF SubSeq(s, j, j + 5) # "[PAGE " THEN 0
    ELSE LET stop == CHOOSE k \in (j + 6)..(Len(s) + 1) :
                         /\ k = Len(s) + 1 \/ ~IsDigit(CharAt(s, k))
                         /\ \A m \in (j + 6)..(k - 1) : IsDigit(CharAt(s, m))
         IN  IF stop = j + 6 \/ stop > Len(s) \/ CharAt(s, stop) # "]" THEN 0
             ELSE IF stop < Len(s) /\ CharAt(s, stop + 1) = "\n"
                  THEN stop + 2 - j
                  ELSE stop + 1 - j

\* re.sub(r"\[PAGE \d+\]\n?", "", s)
RemovePageMarkers(s) ==
    LET starts == {j \in 1..(Len(s) - 7) : CharAt(s, j) = "[" /\ MarkerLen(s, j) > 0}
        gone == UNION {j..(j + MarkerLen(s, j) - 1) : j \in starts}
    IN  ConcatRange([i \in 1..Len(s) |-> IF i \in gone THEN "" ELSE CharAt(s, i)],
                    1, Len(s))

\* re.sub(r"[ \t]+", " ", s)
CollapseBlanks(s) ==
    ConcatRange([i \in 1..Len(s) |->
                    IF CharAt(s, i) \in {" ", "\t"}
                    THEN IF i > 1 /\ CharAt(s, i - 1) \in {" ", "\t"} THEN "" ELSE " "
                    ELSE CharAt(s, i)],
                1, Len(s))

\* re.sub(r"\n{3,}", "\n\n", s)
CollapseNewlines(s) ==
    ConcatRange([i \in 1..Len(s) |->
                    IF i > 2 /\ SubSeq(s, i - 2, i) = "\n\n\n" THEN "" ELSE CharAt(s, i)],
                1, Len(s))

NormalizeQuotes(s) ==
    Replace(Replace(Replace(Replace(s, LEFT_DOUBLE_QUOTE, "\""),
                            RIGHT_DOUBLE_QUOTE, "\""),
                    LEFT_SINGLE_QUOTE, "'"),
            RIGHT_SINGLE_QUOTE, "'")

NormalizeDashes(s) ==
    Replace(Replace(s, EM_DASH, " " \o EM_DASH \o " "), EN_DASH, " - ")

_preprocess_text(s) ==
    Strip(CollapseNewlines(CollapseBlanks(NormalizeDashes(NormalizeQuotes(
        RemovePageMarkers(s))))))

(***************************************************************************)
(* clause_service.py: _segment_sentences and _split_long_sentence          *)
(***************************************************************************)
MIN_CLAUSE_WORDS == 8

MAX_CLAUSE_WORDS == 200

chunk_size == 100000

\* s.split(sep) for a single character sep
Split(s, sep) ==
    LET at == SelectSeq([i \in 1..Len(s) |-> i], LAMBDA i : CharAt(s, i) = sep)
    IN  [k \in 1..(Len(at) + 1) |->
            SubSeq(s, IF k = 1 THEN 1 ELSE at[k - 1] + 1,
                      IF k = Len(at) + 1 THEN Len(s) ELSE at[k] - 1)]

\* [p.strip() for p in s.split(sep) if p.strip()]
StrippedSplits(s, sep) ==
    LET pieces == Split(s, sep)
    IN  SelectSeq([k \in 1..Len(pieces) |-> Strip(pieces[k])], LAMBDA p : p # "")

\* as PartsOf, the comma sub-parts kept whatever their length
PartsOfAnyLength(part) ==
    IF WordCount(part) > MAX_CLAUSE_WORDS THEN StrippedSplits(part, ",")
    ELSE IF WordCount(part) >= MIN_CLAUSE_WORDS THEN <<part>>
    ELSE <<>>

\* what one semicolon part contributes to parts
PartsOf(part) ==
    IF WordCount(part) > MAX_CLAUSE_WORDS
    THEN SelectSeq(StrippedSplits(part, ","),
                   LAMBDA p : WordCount(p) >= MIN_CLAUSE_WORDS)
    ELSE IF WordCount(part) >= MIN_CLAUSE_WORDS THEN <<part>>
    ELSE <<>>

RECURSIVE SplitLoop(_, _)
SplitLoop(semi_splits, k) ==
    IF k > Len(semi_splits) THEN <<>>
    ELSE PartsOf(semi_splits[k]) \o SplitLoop(semi_splits, k + 1)

\* sentence[:500]
Truncated(sentence) == SubSeq(sentence, 1, MinInt(500, Len(sentence)))

PartsOrTruncated(sentence, parts) ==
    IF parts # <<>> THEN parts ELSE <<Truncated(sentence)>>

_split_long_sentence(sentence) ==
    PartsOrTruncated(sentence, SplitLoop(StrippedSplits(sentence, ";"), 1))

\* text[i: i + chunk_size] for i in range(0, len(text), chunk_size)
Chunks(t) ==
    [k \in 1..((Len(t) + chunk_size - 1) \div chunk_size) |->
        SubSeq(t, (k - 1) * chunk_size + 1, MinInt(k * chunk_size, Len(t)))]

EmittedWithoutMinimum(raw) ==
    IF WordCount(raw) > MAX_CLAUSE_WORDS THEN _split_long_sentence(raw) ELSE <<raw>>

\* what one sentence of the document contributes to sentences
Emitted(raw) ==
    IF WordCount(raw) < MIN_CLAUSE_WORDS THEN <<>>
    ELSE IF WordCount(raw) > MAX_CLAUSE_WORDS THEN _split_long_sentence(raw)
    ELSE <<raw>>

RECURSIVE SegmentLoop(_, _)
SegmentLoop(sents, k) ==
    IF k > Len(sents) THEN <<>>
    ELSE Emitted(Strip(sents[k])) \o SegmentLoop(sents, k + 1)

\* doc.sents: the boundary detector puts every character of the chunk in
\* one sentence; cuts are the positions after which it ends a sentence.
DocSents(chunk, cuts) ==
    LET at == SelectSeq([i \in 1..(Len(chunk) - 1) |-> i], LAMBDA i : i \in cuts)
    IN  IF chunk = "" THEN <<>>
        ELSE [k \in 1..(Len(at) + 1) |->
                 SubSeq(chunk, IF k = 1 THEN 1 ELSE at[k - 1] + 1,
                               IF k = Len(at) + 1 THEN Len(chunk) ELSE at[k])]

\* _segment_sentences(t) when the detector cuts chunk k after the positions
\* cuts[k]
RECURSIVE ChunkLoop(_, _, _)
ChunkLoop(chunks, cuts, k) ==
    IF k > Len(chunks) THEN <<>>
    ELSE SegmentLoop(DocSents(chunks[k], cuts[k]), 1) \o ChunkLoop(chunks, cuts, k + 1)

_segment_sentences(t, cuts) == ChunkLoop(Chunks(t), cuts, 1)

(***************************************************************************)
(* SpecText: extract_and_classify_clauses from the contract text on, then  *)
(* the risk services.  A text is at most MaxUnits units joined by a        *)
(* separator; the boundary detector may end a sentence after any full      *)
(* stop.  Three units are oversized sentences (over MAX_CLAUSE_WORDS).     *)
(***************************************************************************)
MaxUnits == 2

\* s repeated n times
RECURSIVE Repeat(_, _)
Repeat(s, n) ==
    IF n = 0 THEN ""
    ELSE IF n = 1 THEN s
    ELSE Repeat(s, n \div 2) \o Repeat(s, n - (n \div 2))

\* 201 words, no semicolon and no comma
LONG_PLAIN == "Any late fee" \o Repeat(" is due", 99) \o "."

\* three semicolon parts: 10 words; 3 words; 205 words, whose comma
\* sub-parts have 8, 2 and 195 words
LONG_MIXED ==
    "The Company may terminate this agreement at its sole discretion; it is so; "
        \o "the late fee is due on the first day, as agreed, and"
        \o Repeat(" so on", 97) \o "."

\* a first word of 500 characters, then 201 words each followed by a comma
LONG_BIGWORD == "fee" \o Repeat("x", 497) \o Repeat(", a", 201) \o "."

UNITS == <<
    SENTENCES[1],
    "This is a short test.",
    SENTENCES[2],
    \* typographic quotes and dashes, a tab and doubled blanks
    "The Company  may \t terminate <this agreement> at its sole discretion~without notice^or {cause}.",
    SENTENCES[5],
    LONG_PLAIN,
    LONG_MIXED,
    LONG_BIGWORD
>>

SEPARATORS == <<" ", "\n[PAGE 2]\n\n\n\n", "">>

Texts ==
    UNION {{Join(SEPARATORS[j], [i \in 1..n |-> UNITS[f[i]]]) :
                f \in [1..n -> 1..Len(UNITS)], j \in 1..Len(SEPARATORS)} :
              n \in 0..MaxUnits}

InitText ==
    /\ pc = "input"
    /\ text \in Texts
    /\ result = <<>>
    /\ doc_sents = <<>>
    /\ sentences = <<>>
    /\ classified = <<>>
    /\ merged = <<>>
    /\ clauses = <<>>
    /\ overall_risk_score = NoScore
    /\ top_risky_type = None
    /\ hash_seed \in Seeds
    /\ StoreIdle

\* where the boundary detector may end a sentence
CutPoints(chunk) == {i \in 1..(Len(chunk) - 1) : CharAt(chunk, i) = "."}

\* the segmentations of the chunks that the boundary detector may produce
Cuts(chunks) == [1..Len(chunks) -> UNION {SUBSET CutPoints(chunks[k]) : k \in 1..Len(chunks)}]

\* doc.sents of every chunk, in order
RECURSIVE SentsLoop(_, _, _)
SentsLoop(chunks, cuts, k) ==
    IF k > Len(chunks) THEN <<>>
    ELSE DocSents(chunks[k], cuts[k]) \o SentsLoop(chunks, cuts, k + 1)

\* extract_and_classify_clauses(text)
ExtractAndClassifyText ==
    /\ pc = "input"
    /\ text' = _preprocess_text(text)
    /\ \E cuts \in Cuts(Chunks(text')) :
           /\ doc_sents' = SentsLoop(Chunks(text'), cuts, 1)
           /\ sentences' = _segment_sentences(text', cuts)
    /\ classified' = _classify_sentences(sentences')
    /\ merged' = _merge_adjacent_clauses(classified')
    /\ clauses' = _assign_metadata(merged')
    /\ pc' = "extracted"
    /\ UNCHANGED <<store_vars, result, overall_risk_score, top_risky_type, hash_seed>>

NextText ==
    \/ ExtractAndClassifyText
    \/ AssignRiskLevels
    \/ ComputeContractRiskScore
    \/ GetTopRiskyClauseType

SpecText == InitText /\ [][NextText]_vars

(***************************************************************************)
(* C11: every clause record returned by extract_and_classify_clauses has   *)
(* word_count >= MIN_CLAUSE_WORDS, unless its text includes a string made  *)
(* by the truncation fallback of _split_long_sentence; and a sentence of   *)
(* the document with fewer than MIN_CLAUSE_WORDS words is not among the    *)
(* sentences the clauses are built from.                                   *)
(***************************************************************************)
\* the sentences of the document for which _split_long_sentence falls back
FallbackSents(doc) ==
    {k \in 1..Len(doc) :
        /\ WordCount(Strip(doc[k])) > MAX_CLAUSE_WORDS
        /\ SplitLoop(StrippedSplits(Strip(doc[k]), ";"), 1) = <<>>}

Fallbacks(doc) == {Truncated(Strip(doc[k])) : k \in FallbackSents(doc)}

ShortSents(doc) == {k \in 1..Len(doc) : WordCount(Strip(doc[k])) < MIN_CLAUSE_WORDS}

\* the sentence lists are built one from the other: classified keeps
\* sentences of sentences, a clause has the text and the words of its block
BuiltFromSentences ==
    /\ \A i \in 1..Len(classified) :
           \E j \in 1..Len(sentences) : classified[i].sentence = sentences[j]
    /\ Len(clauses) = Len(merged)
    /\ \A i \in 1..Len(clauses) :
           /\ clauses[i].original_text = merged[i].merged_text
           /\ clauses[i].word_count = WordCount(clauses[i].original_text)

C11_MinimumWordCount ==
    pc = "extracted" =>
        /\ BuiltFromSentences
        /\ \A i \in 1..Len(clauses) :
               \/ clauses[i].word_count >= MIN_CLAUSE_WORDS
               \/ \E fb \in Fallbacks(doc_sents) : Contains(clauses[i].original_text, fb)
        /\ \A k \in ShortSents(doc_sents) :
               \A j \in 1..Len(sentences) : sentences[j] # Strip(doc_sents[k])

\* C11 witness: a 5-word sentence of the document was dropped and the other
\* sentence became a clause
C11_Witness ==
    /\ pc = "extracted"
    /\ \E k \in ShortSents(doc_sents) : Strip(doc_sents[k]) = "This is a short test."
    /\ Len(clauses) = 1
    /\ clauses[1].word_count >= 8

(***************************************************************************)
(* C12: the original_text of the clauses returned by                       *)
(* extract_and_classify_clauses, concatenated in list order, is a          *)
(* subsequence (characters in order, gaps allowed) of the preprocessed     *)
(* text.                                                                   *)
(***************************************************************************)
\* the least j >= from with t[j] = c, Len(t) + 1 if there is none
NextAt(t, c, from) ==
    IF \E j \in from..Len(t) : CharAt(t, j) = c
    THEN CHOOSE j \in from..Len(t) :
             CharAt(t, j) = c /\ \A k \in from..(j - 1) : CharAt(t, k) # c
    ELSE Len(t) + 1

\* s[lo..hi] matched greedily in t from position from on: the position
\* after the last character matched, beyond Len(t) + 1 if the match fails
RECURSIVE MatchEnd(_, _, _, _, _)
MatchEnd(s, lo, hi, t, from) ==
    IF from > Len(t) + 1 \/ lo > hi THEN from
    ELSE IF lo = hi THEN NextAt(t, CharAt(s, lo), from) + 1
    ELSE MatchEnd(s, ((lo + hi) \div 2) + 1, hi, t,
                  MatchEnd(s, lo, (lo + hi) \div 2, t, from))

IsSubsequence(s, t) == MatchEnd(s, 1, Len(s), t, 1) <= Len(t) + 1

AllOriginalText(cl) ==
    ConcatRange([i \in 1..Len(cl) |-> cl[i].original_text], 1, Len(cl))

C12_TextsAreSubsequence ==
    pc = "extracted" => IsSubsequence(AllOriginalText(clauses), text)

(***************************************************************************)
(* C13: every clause returned by extract_and_classify_clauses is a         *)
(* contiguous span of the document: its text is made of sentences that     *)
(* follow one another in the sentence list, none of the list lying between *)
(* two of them.                                                            *)
(***************************************************************************)
\* t is sents[a..b] joined by spaces, for some a <= b
IsContiguousSpan(t, sents) ==
    \E a \in 1..Len(sents) : \E b \in a..Len(sents) :
        t = Join(" ", SubSeq(sents, a, b))

C13_ClausesAreContiguous ==
    pc = "extracted" =>
        \A i \in 1..Len(clauses) : IsContiguousSpan(clauses[i].original_text, sentences)

(***************************************************************************)
(* C14: every sentence emitted by _segment_sentences has at most           *)
(* MAX_CLAUSE_WORDS words, the string of the truncation fallback excepted. *)
(***************************************************************************)
C14_NoOversizedSentence ==
    pc = "extracted" =>
        \A j \in 1..Len(sentences) :
            \/ WordCount(sentences[j]) <= MAX_CLAUSE_WORDS
            \/ sentences[j] \in Fallbacks(doc_sents)

(***************************************************************************)
(* SpecSplit: _split_long_sentence applied to one oversized sentence, made *)
(* of at most MaxParts parts joined by a semicolon.                        *)
(***************************************************************************)
MaxParts == 2

SEMICOLON_PARTS == <<
    "the late fee is due on the first day of the month",      \* 11 words
    "it is so",                                               \* 3 words
    "the fee is due on the first day",                        \* 8 words
    "the fee is due on that day",                             \* 7 words
    "It is due" \o Repeat(" so on", 98) \o " now",            \* 200 words
    "It is due" \o Repeat(" so on", 99),                      \* 201 words, no comma
    \* 206 words; the comma sub-parts have 9, 2 and 195 words
    "the late fee is due on the first day, as agreed , and" \o Repeat(" so on", 97),
    "a" \o Repeat(", a", 200),                                \* 201 words, one by one
    " "
>>

SEMICOLONS == <<";", " ; ">>

OversizedSentences ==
    {s \in UNION {{Join(SEMICOLONS[j], [i \in 1..n |-> SEMICOLON_PARTS[f[i]]]) :
                      f \in [1..n -> 1..Len(SEMICOLON_PARTS)],
                      j \in 1..Len(SEMICOLONS)} : n \in 1..MaxParts} :
        WordCount(Strip(s)) > MAX_CLAUSE_WORDS}

InitSplit ==
    /\ pc = "oversized"
    /\ text \in {Strip(s) : s \in OversizedSentences}
    /\ result = <<>>
    /\ doc_sents = <<>>
    /\ sentences = <<>>
    /\ classified = <<>>
    /\ merged = <<>>
    /\ clauses = <<>>
    /\ overall_risk_score = NoScore
    /\ top_risky_type = None
    /\ hash_seed = 0
    /\ StoreIdle

\* sub = _split_long_sentence(raw)
SplitLongSentence ==
    /\ pc = "oversized"
    /\ sentences' = _split_long_sentence(text)
    /\ pc' = "split"
    /\ UNCHANGED <<store_vars, text, doc_sents, result, classified, merged, clauses,
                   overall_risk_score, top_risky_type, hash_seed>>

NextSplit == SplitLongSentence

SpecSplit == InitSplit /\ [][NextSplit]_vars

(***************************************************************************)
(* C15: _split_long_sentence returns, in the order of the sentence, the    *)
(* semicolon-delimited parts of MIN_CLAUSE_WORDS to MAX_CLAUSE_WORDS words *)
(* and, for a semicolon part of more than MAX_CLAUSE_WORDS words, its      *)
(* comma-delimited sub-parts of at least MIN_CLAUSE_WORDS words; it        *)
(* returns the first 500 characters of the sentence, alone, if and only if *)
(* no part qualifies.  The parts are described here by their positions in  *)
(* the sentence, without splitting it.                                     *)
(***************************************************************************)
\* the maximal stretches <<a, b>> of s[lo..hi] that hold no character of seps
Stretches(s, lo, hi, seps) ==
    LET B == {lo - 1, hi + 1} \cup {i \in lo..hi : CharAt(s, i) \in seps}
    IN  {<<p + 1, (CHOOSE q \in B : q > p /\ \A r \in B : r > p => q <= r) - 1>> :
            p \in B \ {hi + 1}}

WordsIn(s, st) == WordCount(SubSeq(s, st[1], st[2]))

QualifyingStretches(s) ==
    LET semi == Stretches(s, 1, Len(s), {";"})
    IN  {st \in semi : /\ WordsIn(s, st) >= MIN_CLAUSE_WORDS
                       /\ WordsIn(s, st) <= MAX_CLAUSE_WORDS}
        \cup UNION {{sub \in Stretches(s, st[1], st[2], {","}) :
                        WordsIn(s, sub) >= MIN_CLAUSE_WORDS} :
                    st \in {st \in semi : WordsIn(s, st) > MAX_CLAUSE_WORDS}}

\* the stretches of Q from left to right, each without the blanks around it
InOrder(s, Q) ==
    [k \in 1..Cardinality(Q) |->
        LET st == CHOOSE st \in Q : Cardinality({o \in Q : o[1] < st[1]}) = k - 1
        IN  Strip(SubSeq(s, st[1], st[2]))]

ExpectedParts(s, Q) ==
    IF Q = {} THEN <<SubSeq(s, 1, MinInt(500, Len(s)))>> ELSE InOrder(s, Q)

RunAgain ==
    /\ pc = "aggregated"
    /\ result = <<>>
    /\ result' = <<clauses>>
    /\ hash_seed' \in Seeds
    /\ classified' = <<>>
    /\ merged' = <<>>
    /\ clauses' = <<>>
    /\ overall_risk_score' = NoScore
    /\ top_risky_type' = None
    /\ pc' = "start"
    /\ UNCHANGED <<store_vars, text, doc_sents, sentences>>

NextTwice ==
    \/ ExtractAndClassify
    \/ AssignRiskLevels
    \/ ComputeContractRiskScore
    \/ GetTopRiskyClauseType
    \/ RunAgain

SpecTwice == Init /\ [][NextTwice]_vars

(***************************************************************************)
(* C17: two runs of the pipeline on the same text, in the same or in       *)
(* separate runs of the program, give clause lists that agree record by    *)
(* record on every field but clause_id.                                    *)
(***************************************************************************)
SameButId(a, b) ==
    /\ a.clause_type = b.clause_type
    /\ a.original_text = b.original_text
    /\ a.position_in_document = b.position_in_document
    /\ a.word_count = b.word_count
    /\ a.risk_level = b.risk_level
    /\ a.risk_reason = b.risk_reason
    /\ a.risk_indicators = b.risk_indicators
    /\ a.risk_score = b.risk_score

C17_RunsAgree ==
    (pc = "aggregated" /\ Len(result) = 1) =>
        /\ Len(clauses) = Len(result[1])
        /\ \A i \in 1..Len(clauses) : SameButId(clauses[i], result[1][i])

(***************************************************************************)
(* C18: the text "The Employee shall waive all rights to compensation      *)
(* without notice. Both parties may terminate this agreement with 30 days  *)
(* written notice.", segmented into its two sentences, gives exactly two   *)
(* clauses in that order, the first Payment and High, the second           *)
(* Termination and Low; in the aggregate the High clause contributes       *)
(* score x 3.0, more than the score x 0.3 of the Low clause.               *)
(***************************************************************************)
EXAMPLE_SENTENCES == <<SENTENCES[1], SENTENCES[2]>>

C18_TwoClauseExample ==
    sentences = EXAMPLE_SENTENCES =>
        /\ pc # "start" =>
               /\ Len(clauses) = 2
               /\ clauses[1].clause_type = "Payment"
               /\ clauses[1].original_text = SENTENCES[1]
               /\ clauses[2].clause_type = "Termination"
               /\ clauses[2].original_text = SENTENCES[2]
        /\ pc \in {"scored", "computed", "aggregated"} =>
               /\ clauses[1].risk_level = "High"
               /\ clauses[2].risk_level = "Low"
               /\ ~FGe(FMulInt(Dec(3, 10), clauses[2].risk_score),
                       FMulInt(Dec(30, 10), clauses[1].risk_score))

\* C18 witness: the example has been through the services
C18_Witness ==
    /\ pc = "aggregated"
    /\ sentences = EXAMPLE_SENTENCES
    /\ Len(clauses) = 2
    /\ clauses[1].risk_level = "High"
    /\ clauses[2].risk_level = "Low"
    /\ clauses[1].risk_score > clauses[2].risk_score
    /\ overall_risk_score > 0

(***************************************************************************)
(* C19, as stated: for the clause text "Both parties may terminate this    *)
(* agreement with 30 days written notice." the scorer matches the          *)
(* balancing patterns "30 days notice" and "both parties" and no pattern   *)
(* of the high or of the medium table, so risk_indicators is empty.        *)
(***************************************************************************)
BALANCED_TEXT == SENTENCES[2]

PatternsHit(table, t) ==
    {e.pattern : e \in {Hits(table, Lower(t))[k] : k \in 1..Len(Hits(table, Lower(t)))}}

ScoredBalanced == {i \in 1..Len(clauses) : clauses[i].original_text = BALANCED_TEXT}

C19_NoIndicatorForBalancedText ==
    pc = "scored" =>
        \A i \in ScoredBalanced :
            /\ {"30 days notice", "both parties"} \subseteq
                   PatternsHit(LOW_RISK_PATTERNS, BALANCED_TEXT)
            /\ PatternsHit(HIGH_RISK_PATTERNS, BALANCED_TEXT) = {}
            /\ PatternsHit(MEDIUM_RISK_PATTERNS, BALANCED_TEXT) = {}
            /\ clauses[i].risk_indicators = <<>>

(***************************************************************************)
(* C19, amended: for that text the scorer matches the balancing patterns   *)
(* "both parties" and "written notice" (not "30 days notice"), no pattern  *)
(* of the high table and the medium pattern "may terminate";               *)
(* risk_indicators holds the one record of "may terminate", and the level  *)
(* is Low.                                                                 *)
(***************************************************************************)
C19_OneMediumIndicator ==
    pc = "scored" =>
        \A i \in ScoredBalanced :
            /\ PatternsHit(LOW_RISK_PATTERNS, BALANCED_TEXT) = {"both parties", "written notice"}
            /\ PatternsHit(HIGH_RISK_PATTERNS, BALANCED_TEXT) = {}
            /\ PatternsHit(MEDIUM_RISK_PATTERNS, BALANCED_TEXT) = {"may terminate"}
            /\ clauses[i].risk_indicators =
                   <<[pattern_matched |-> "may terminate",
                      risk_category |-> "conditional_risk", severity_score |-> 5]>>
            /\ clauses[i].risk_level = "Low"

\* C19 witness: a clause with that text has been scored
C19_Witness ==
    /\ pc = "scored"
    /\ \E i \in ScoredBalanced :
           /\ Len(clauses[i].risk_indicators) = 1
           /\ clauses[i].risk_level = "Low"

(***************************************************************************)
(* C20: risk_indicators holds one record per matched entry of the high     *)
(* table, then one per matched entry of the medium table, each in table    *)
(* order, and no record for a match of the low table.                      *)
(***************************************************************************)
\* the indicators of the entries of table whose index is in S, by index
IndicatorsOf(table, S) ==
    [k \in 1..Cardinality(S) |->
        Indicator(table[CHOOSE i \in S : Cardinality({j \in S : j < i}) = k - 1])]

IndicatorsByTable(high, medium) ==
    IndicatorsOf(HIGH_RISK_PATTERNS, high) \o IndicatorsOf(MEDIUM_RISK_PATTERNS, medium)

C20_IndicatorsAreHighThenMedium ==
    pc = "done" =>
        result.risk_indicators =
            IndicatorsByTable(Matched(HIGH_RISK_PATTERNS, text),
                              Matched(MEDIUM_RISK_PATTERNS, text))

\* C20 witness: matches in the three tables, two of them in the high table
C20_Witness ==
    /\ pc = "done"
    /\ Cardinality(Matched(HIGH_RISK_PATTERNS, text)) >= 2
    /\ Matched(MEDIUM_RISK_PATTERNS, text) # {}
    /\ Matched(LOW_RISK_PATTERNS, text) # {}
    /\ Len(result.risk_indicators) =
           Cardinality(Matched(HIGH_RISK_PATTERNS, text))
               + Cardinality(Matched(MEDIUM_RISK_PATTERNS, text))

(***************************************************************************)
(* C21: the risk fields of a clause record before and after                *)
(* assign_risk_levels.                                                     *)
(***************************************************************************)
\* the record as _assign_metadata leaves it: no risk field set yet
Unscored(clause) ==
    /\ clause.risk_level = None
    /\ clause.risk_reason = None
    /\ clause.risk_score = NoScore
    /\ clause.risk_indicators = <<>>
    /\ clause.suggestion_status = "pending"

\* the record as assign_risk_levels leaves it
HasRisk(clause) ==
    /\ clause.risk_level \in {"High", "Medium", "Low"}
    /\ clause.risk_reason # None
    /\ clause.risk_score \in 0..100

\* C21: every clause record made by _assign_metadata has risk_level,
\* risk_reason and risk_score null, risk_indicators empty and
\* suggestion_status "pending", and stays so until assign_risk_levels runs;
\* once assign_risk_levels has returned, every clause of the list has a
\* risk_level among High, Medium and Low, a risk_reason and an integer
\* risk_score.
C21_RiskFieldsNullUntilScored ==
    /\ pc = "extracted" => \A i \in 1..Len(clauses) : Unscored(clauses[i])
    /\ pc \in {"scored", "computed", "aggregated"} =>
           \A i \in 1..Len(clauses) : HasRisk(clauses[i])

C21_Witness ==
    /\ pc = "scored"
    /\ Len(clauses) >= 2
    /\ \E i, j \in 1..Len(clauses) :
           clauses[i].risk_level = "High" /\ clauses[j].risk_level = "Low"

(***************************************************************************)
(* The steps of _execute_analysis_pipeline that follow the risk scorer.    *)
(* The texts produced by the summarizer, the vector store and the          *)
(* generative model come from outside the code; each stands as one token,  *)
(* and which branch of the code produced it is an input of the step.       *)
(***************************************************************************)
\* simplifier_service.py: what simplify_clauses stores in simplified_text
SIMPLIFIED == "[simplified text]"

\* simplify_clauses, the summarizer being loaded
simplify_clauses(cl) ==
    [i \in 1..Len(cl) |-> [cl[i] EXCEPT !.simplified_text = SIMPLIFIED]]

\* rag_service.py
ENRICH_RISK_LEVELS == {"Medium", "High"}

\* the dict built from the retrieved documents
RAG_CONTEXT == "[retrieved context]"

\* what the vector store does for one call of enrich_with_rag
Retrievals == {"not ready", "no docs", "docs"}

_enrich_single_clause(clause, retrieval) ==
    IF clause.risk_level \notin ENRICH_RISK_LEVELS
    THEN [clause EXCEPT !.rag_context = None]
    ELSE IF retrieval = "docs" THEN [clause EXCEPT !.rag_context = RAG_CONTEXT]
    ELSE [clause EXCEPT !.rag_context = None]

enrich_with_rag(cl, retrieval) ==
    IF retrieval = "not ready" THEN cl
    ELSE [i \in 1..Len(cl) |-> _enrich_single_clause(cl[i], retrieval)]

\* suggestion_service.py
FALLBACK_TEMPLATES ==
    {"rights_waiver", "one_sided_control", "financial_risk", "irrevocable_terms",
     "non_negotiable", "due_process", "ip_risk", "non_compete", "vague_obligation",
     "data_risk", "liability"}

LOW_SUGGESTION ==
    "This clause appears balanced. No changes are recommended. " \o
    "However, ensure the terms align with your specific legal context."

\* the text returned by generate_text
AI_SUGGESTION == "[generated suggestion]"

REGENERATED_SUGGESTION == "[regenerated suggestion]"

\* the template text of a category
TemplateOf(category) == "[template " \o category \o "]"

GENERIC_FALLBACK ==
    "[Suggested Alternative] " \o
    "This clause should be reviewed by a qualified legal professional. " \o
    "Consider negotiating more balanced terms that protect the rights " \o
    "and obligations of both parties equally."

_get_fallback_suggestion(clause) ==
    LET indicators == clause.risk_indicators
    IN  IF indicators # <<>> /\ Top3(indicators)[1].risk_category \in FALLBACK_TEMPLATES
        THEN "[Suggested Alternative ~ " \o clause.clause_type \o "] " \o
             TemplateOf(Top3(indicators)[1].risk_category)
        ELSE GENERIC_FALLBACK

\* a faulty loop body, which also marks the clause Low once it has a suggestion
SuggestClauseLowering(clause, ai_ok) ==
    [clause EXCEPT !.suggestion = IF ai_ok THEN AI_SUGGESTION ELSE GENERIC_FALLBACK,
                   !.suggestion_status = "pending",
                   !.risk_level = "Low"]

\* the body of the loop of generate_suggestions; ai_ok: generate_text returned
SuggestClause(clause, ai_ok) ==
    IF clause.risk_level = "Low"
    THEN [clause EXCEPT !.suggestion = LOW_SUGGESTION, !.suggestion_status = "pending"]
    ELSE [clause EXCEPT
             !.suggestion = IF ai_ok THEN AI_SUGGESTION ELSE _get_fallback_suggestion(clause),
             !.suggestion_status = "pending"]

generate_suggestions(cl, ai_ok) ==
    [i \in 1..Len(cl) |-> SuggestClause(cl[i], ai_ok)]

regenerate_suggestion_for_clause(clause, ai_ok) ==
    IF ai_ok THEN REGENERATED_SUGGESTION ELSE _get_fallback_suggestion(clause)

(***************************************************************************)
(* SpecStore: the request handlers of analysis_controller.py and           *)
(* suggestion_controller.py on one contract.  A handler runs from one      *)
(* await of a database call to the next as one step; the steps of          *)
(* requests in flight interleave.  The contract exists and belongs to the  *)
(* caller, so the lookup in the contracts collection always succeeds.      *)
(* clause_id is str(uuid.uuid4()) and _id an ObjectId: values never drawn  *)
(* twice, which stand here as uuid_count + 1, uuid_count + 2, ...          *)
(***************************************************************************)
MaxRequests == 2

\* the sentences _segment_sentences returns for the contract's extracted_text
CONTRACT_SENTENCES ==
    {<<SENTENCES[1], SENTENCES[2]>>, <<SENTENCES[5]>>}

Operations ==
    {"run", "run_async", "reanalyze", "accept", "reject", "edit", "regenerate"}

SuggestionOperations == {"accept", "reject", "edit", "regenerate"}

\* no document: what find_one returns when nothing matches
NoAnalysis ==
    [_id |-> 0, clauses |-> <<>>, overall_risk_score |-> NoScore,
     top_risky_clause_type |-> None]

\* the analysis document built by _execute_analysis_pipeline; its counts,
\* clauses_by_type and dates derive from the clauses and are left out
AnalysisDocument(id, cl, score, top) ==
    [_id |-> id, clauses |-> cl, overall_risk_score |-> score,
     top_risky_clause_type |-> top]

\* a request as it arrives; clause_id is 0 when the route has none, and
\* deleted is what delete_many removed (its result, which the handler drops)
Request(op, clause_id) ==
    [op |-> op, clause_id |-> clause_id, pc |-> "start", analysis |-> NoAnalysis,
     clauses |-> <<>>, overall_risk_score |-> NoScore, top_risky_type |-> None,
     deleted |-> <<>>, response |-> None]

\* uuid.uuid4() for each record of _assign_metadata
WithUuids(cl, base) ==
    [i \in 1..Len(cl) |-> [cl[i] EXCEPT !.clause_id = base + i]]

\* db["analyses"].find_one({"contract_id": contract_id})
FindOne == IF db.analyses = <<>> THEN NoAnalysis ELSE db.analyses[1]

\* db["analyses"].update_one({"_id": id}, {"$set": {"clauses": cl}})
UpdateOne(id, cl) ==
    [a \in 1..Len(db.analyses) |->
        IF db.analyses[a]._id = id THEN [db.analyses[a] EXCEPT !.clauses = cl]
        ELSE db.analyses[a]]

StoredClauseIds ==
    UNION {{db.analyses[a].clauses[i].clause_id : i \in 1..Len(db.analyses[a].clauses)} :
               a \in 1..Len(db.analyses)}

\* datetime.utcnow()
NOW == "utcnow"

\* payload.edited_text
EDITED_TEXT == "[edited text]"

Stamped(clause) == [updated_at |-> NOW] @@ clause

\* what each suggestion handler does to the clause it found
Accepted(clause) == Stamped([clause EXCEPT !.suggestion_status = "accepted"])

Rejected(clause) == Stamped([clause EXCEPT !.suggestion_status = "rejected"])

\* a faulty edit, which puts the edited text in place of the clause text
EditedInPlace(clause) ==
    Stamped([clause EXCEPT
                !.original_text = EDITED_TEXT,
                !.edited_suggestion = EDITED_TEXT,
                !.suggestion_status = "edited"])

Edited(clause) ==
    LET original == IF clause.edited_suggestion = None THEN clause.suggestion
                    ELSE clause.edited_suggestion
    IN  Stamped([clause EXCEPT
                    !.edited_suggestion = EDITED_TEXT,
                    !.suggestion_status = "edited",
                    !.edit_log = Append(@, [original_suggestion |-> original,
                                            edited_text |-> EDITED_TEXT])])

Regenerated(clause, ai_ok) ==
    Stamped([clause EXCEPT
                !.suggestion = regenerate_suggestion_for_clause(clause, ai_ok),
                !.edited_suggestion = None,
                !.suggestion_status = "pending"])

Applied(op, clause, ai_ok) ==
    IF op = "accept" THEN Accepted(clause)
    ELSE IF op = "reject" THEN Rejected(clause)
    ELSE IF op = "edit" THEN Edited(clause)
    ELSE Regenerated(clause, ai_ok)

\* the clause list after the loop that looks for clause_id
WithClause(op, cl, clause_id, ai_ok) ==
    LET i == CHOOSE k \in 1..Len(cl) :
                 /\ cl[k].clause_id = clause_id
                 /\ \A j \in 1..(k - 1) : cl[j].clause_id # clause_id
    IN  [cl EXCEPT ![i] = Applied(op, cl[i], ai_ok)]

\* the response sent for the request, unless one was sent already (a
\* background task sends none)
Responded(req, response) ==
    IF req.response = None THEN response ELSE req.response

pipeline_vars ==
    <<pc, text, result, doc_sents, sentences, classified, merged, clauses,
      overall_risk_score, top_risky_type, hash_seed>>

\* a request arrives: a handler starts, in its first step, on a request of
\* its own
Arrived == Len(requests) < MaxRequests

\* run_full_analysis, mode sync or async: existing = find_one(...); 409
\* when there is one
RunFullAnalysis ==
    /\ pc = "serving"
    /\ Arrived
    /\ \E op \in {"run", "run_async"} :
           requests' = Append(requests,
               IF FindOne # NoAnalysis
               THEN [Request(op, 0) EXCEPT !.response = "409", !.pc = "done"]
               ELSE IF op = "run_async" THEN [Request(op, 0) EXCEPT !.pc = "background"]
               ELSE [Request(op, 0) EXCEPT !.pc = "pipeline"])
    /\ UNCHANGED <<pipeline_vars, db, uuid_count, _simplifier>>

\* run_full_analysis, mode async: add_task, analysis_status "processing",
\* and the response; the task runs after the response
RunInBackground ==
    \E r \in 1..Len(requests) :
        /\ pc = "serving"
        /\ requests[r].pc = "background"
        /\ db' = [db EXCEPT !.analysis_status = "processing"]
        /\ requests' = [requests EXCEPT ![r] = [@ EXCEPT !.response = "processing",
                                                          !.pc = "pipeline"]]
        /\ UNCHANGED <<pipeline_vars, uuid_count, _simplifier>>

\* reanalyze_contract: delete_many, then the pipeline
ReanalyzeContract ==
    /\ pc = "serving"
    /\ Arrived
    /\ db' = [db EXCEPT !.analyses = <<>>]
    /\ requests' = Append(requests, [Request("reanalyze", 0) EXCEPT
                                        !.deleted = db.analyses, !.pc = "pipeline"])
    /\ UNCHANGED <<pipeline_vars, uuid_count, _simplifier>>

\* _execute_analysis_pipeline: analysis_status "processing"
PipelineStart ==
    \E r \in 1..Len(requests) :
        /\ pc = "serving"
        /\ requests[r].pc = "pipeline"
        /\ db' = [db EXCEPT !.analysis_status = "processing"]
        /\ requests' = [requests EXCEPT ![r] = [@ EXCEPT !.pc = "extract"]]
        /\ UNCHANGED <<pipeline_vars, uuid_count, _simplifier>>

\* step 1: extract_and_classify_clauses; ValueError when there is no clause
PipelineExtract ==
    \E r \in 1..Len(requests) :
        /\ pc = "serving"
        /\ requests[r].pc = "extract"
        /\ LET cl == WithUuids(_assign_metadata(_merge_adjacent_clauses(
                                   _classify_sentences(sentences))), uuid_count)
           IN  /\ requests' = [requests EXCEPT ![r] =
                                  [@ EXCEPT !.clauses = cl,
                                            !.pc = IF cl = <<>> THEN "failed" ELSE "assign"]]
               /\ uuid_count' = uuid_count + Len(cl)
        /\ UNCHANGED <<pipeline_vars, db, _simplifier>>

\* step 2: assign_risk_levels
PipelineAssign ==
    \E r \in 1..Len(requests) :
        /\ pc = "serving"
        /\ requests[r].pc = "assign"
        /\ requests' = [requests EXCEPT ![r] =
                           [@ EXCEPT !.clauses = assign_risk_levels(@), !.pc = "simplify"]]
        /\ UNCHANGED <<pipeline_vars, db, uuid_count, _simplifier>>

\* step 3: simplify_clauses; _get_simplifier loads the summarizer on the
\* first call, outside any try block, and the loading may raise
PipelineSimplify ==
    \E r \in 1..Len(requests) :
        /\ pc = "serving"
        /\ requests[r].pc = "simplify"
        /\ \E loads \in (IF _simplifier = None THEN BOOLEAN ELSE {TRUE}) :
               IF loads
               THEN /\ _simplifier' = "pipeline"
                    /\ requests' = [requests EXCEPT ![r] =
                                       [@ EXCEPT !.clauses = simplify_clauses(@),
                                                 !.pc = "enrich"]]
               ELSE /\ _simplifier' = None
                    /\ requests' = [requests EXCEPT ![r] = [@ EXCEPT !.pc = "failed"]]
        /\ UNCHANGED <<pipeline_vars, db, uuid_count>>

\* step 4: enrich_with_rag
PipelineEnrich ==
    \E r \in 1..Len(requests) :
        /\ pc = "serving"
        /\ requests[r].pc = "enrich"
        /\ \E retrieval \in Retrievals :
               requests' = [requests EXCEPT ![r] =
                               [@ EXCEPT !.clauses = enrich_with_rag(@, retrieval),
                                         !.pc = "suggest"]]
        /\ UNCHANGED <<pipeline_vars, db, uuid_count, _simplifier>>

\* step 5: generate_suggestions
PipelineSuggest ==
    \E r \in 1..Len(requests) :
        /\ pc = "serving"
        /\ requests[r].pc = "suggest"
        /\ \E ai_ok \in BOOLEAN :
               requests' = [requests EXCEPT ![r] =
                               [@ EXCEPT !.clauses = generate_suggestions(@, ai_ok),
                                         !.pc = "score"]]
        /\ UNCHANGED <<pipeline_vars, db, uuid_count, _simplifier>>

\* step 6: compute_contract_risk_score and get_top_risky_clause_type
PipelineScore ==
    \E r \in 1..Len(requests) :
        /\ pc = "serving"
        /\ requests[r].pc = "score"
        /\ requests' = [requests EXCEPT ![r] =
               [@ EXCEPT !.overall_risk_score = compute_contract_risk_score(requests[r].clauses),
                         !.top_risky_type = get_top_risky_clause_type(requests[r].clauses),
                         !.pc = "insert"]]
        /\ UNCHANGED <<pipeline_vars, db, uuid_count, _simplifier>>

\* insert_one(analysis)
PipelineInsert ==
    \E r \in 1..Len(requests) :
        /\ pc = "serving"
        /\ requests[r].pc = "insert"
        /\ db' = [db EXCEPT !.analyses =
                     Append(@, AnalysisDocument(uuid_count + 1, requests[r].clauses,
                                                requests[r].overall_risk_score,
                                                requests[r].top_risky_type))]
        /\ uuid_count' = uuid_count + 1
        /\ requests' = [requests EXCEPT ![r] = [@ EXCEPT !.pc = "summary"]]
        /\ UNCHANGED <<pipeline_vars, _simplifier>>

\* the update of the contract summary, and the response
PipelineSummary ==
    \E r \in 1..Len(requests) :
        /\ pc = "serving"
        /\ requests[r].pc = "summary"
        /\ db' = [db EXCEPT
                     !.analysis_status = "completed",
                     !.analysis_summary =
                         [total_clauses |-> Len(requests[r].clauses),
                          overall_risk_score |-> requests[r].overall_risk_score]]
        /\ requests' = [requests EXCEPT ![r] =
                           [@ EXCEPT !.response = Responded(requests[r], "200"),
                                     !.pc = "done"]]
        /\ UNCHANGED <<pipeline_vars, uuid_count, _simplifier>>

\* except Exception: analysis_status "failed", HTTP 500
PipelineFailed ==
    \E r \in 1..Len(requests) :
        /\ pc = "serving"
        /\ requests[r].pc = "failed"
        /\ db' = [db EXCEPT !.analysis_status = "failed"]
        /\ requests' = [requests EXCEPT ![r] =
                           [@ EXCEPT !.response = Responded(requests[r], "500"),
                                     !.pc = "done"]]
        /\ UNCHANGED <<pipeline_vars, uuid_count, _simplifier>>

\* accept_suggestion, reject_suggestion, custom_edit_suggestion and
\* regenerate_suggestion up to their update_one: find_one, then the change
\* of the clause in the document read; 404 without an analysis or a clause.
\* The clause_id of the route is one of a stored clause, or of none (0).
SuggestionFind ==
    /\ pc = "serving"
    /\ Arrived
    /\ \E op \in SuggestionOperations, clause_id \in StoredClauseIds \cup {0} :
           LET analysis == FindOne
               req == Request(op, clause_id)
           IN  IF \/ analysis = NoAnalysis
                  \/ \A i \in 1..Len(analysis.clauses) :
                         analysis.clauses[i].clause_id # clause_id
               THEN requests' = Append(requests,
                        [req EXCEPT !.response = "404", !.pc = "done"])
               ELSE \E ai_ok \in (IF op = "regenerate" THEN BOOLEAN ELSE {TRUE}) :
                        requests' = Append(requests,
                            [req EXCEPT
                                !.analysis =
                                    [analysis EXCEPT !.clauses =
                                        WithClause(op, @, clause_id, ai_ok)],
                                !.pc = "save"])
    /\ UNCHANGED <<pipeline_vars, db, uuid_count, _simplifier>>

\* update_one({"_id": analysis["_id"]}, {"$set": {"clauses": ...}}), and
\* the response
SuggestionSave ==
    \E r \in 1..Len(requests) :
        /\ pc = "serving"
        /\ requests[r].pc = "save"
        /\ db' = [db EXCEPT !.analyses =
                     UpdateOne(requests[r].analysis._id, requests[r].analysis.clauses)]
        /\ requests' = [requests EXCEPT ![r] =
                           [@ EXCEPT !.response = "200", !.pc = "done"]]
        /\ UNCHANGED <<pipeline_vars, uuid_count, _simplifier>>

\* the analysis a completed run of the pipeline has stored, the vector store
\* having returned documents and generate_text a suggestion
StoredByPipeline(sents) ==
    LET scored == assign_risk_levels(WithUuids(
                      _assign_metadata(_merge_adjacent_clauses(
                          _classify_sentences(sents))), 0))
        cl == generate_suggestions(
                  enrich_with_rag(simplify_clauses(SubSeq(scored, 1, Len(scored))),
                                  "docs"),
                  TRUE)
    IN  AnalysisDocument(Len(cl) + 1, SubSeq(cl, 1, Len(cl)),
                         compute_contract_risk_score(SubSeq(scored, 1, Len(scored))),
                         get_top_risky_clause_type(SubSeq(scored, 1, Len(scored))))

\* the server has started: no request in flight, the summarizer not loaded
\* yet, and the contract analysed before or not
InitStore ==
    /\ pc = "serving"
    /\ text = ""
    /\ result = <<>>
    /\ doc_sents = <<>>
    /\ sentences \in CONTRACT_SENTENCES
    /\ classified = <<>>
    /\ merged = <<>>
    /\ clauses = <<>>
    /\ overall_risk_score = NoScore
    /\ top_risky_type = None
    /\ hash_seed = 0
    /\ requests = <<>>
    /\ _simplifier = None
    /\ \/ /\ db = [analyses |-> <<>>, analysis_status |-> None,
                   analysis_summary |-> [total_clauses |-> 0,
                                         overall_risk_score |-> NoScore]]
          /\ uuid_count = 0
       \/ \E analysis \in {StoredByPipeline(sentences)} :
              /\ analysis.clauses # <<>>
              /\ db = [analyses |-> <<analysis>>, analysis_status |-> "completed",
                       analysis_summary |->
                           [total_clauses |-> Len(analysis.clauses),
                            overall_risk_score |-> analysis.overall_risk_score]]
              /\ uuid_count = analysis._id

NextStore ==
    \/ RunFullAnalysis
    \/ RunInBackground
    \/ ReanalyzeContract
    \/ PipelineStart
    \/ PipelineExtract
    \/ PipelineAssign
    \/ PipelineSimplify
    \/ PipelineEnrich
    \/ PipelineSuggest
    \/ PipelineScore
    \/ PipelineInsert
    \/ PipelineSummary
    \/ PipelineFailed
    \/ SuggestionFind
    \/ SuggestionSave

SpecStore == InitStore /\ [][NextStore]_vars

(***************************************************************************)
(* C22: what is written on a clause record after its creation.             *)
(***************************************************************************)
\* the fields given at creation that the claim calls immutable
Identity(clause) ==
    [clause_id |-> clause.clause_id, clause_type |-> clause.clause_type,
     original_text |-> clause.original_text,
     position_in_document |-> clause.position_in_document,
     word_count |-> clause.word_count]

RecordsOf(cl) == {cl[i] : i \in 1..Len(cl)}

\* every clause record there is: stored, or held by a handler
ClauseRecords ==
    UNION ({RecordsOf(db.analyses[a].clauses) : a \in 1..Len(db.analyses)}
           \cup {RecordsOf(requests[r].clauses) : r \in 1..Len(requests)}
           \cup {RecordsOf(requests[r].analysis.clauses) : r \in 1..Len(requests)})

\* the fields a step of the pipeline may write, by the position before it
PipelineWrites(at) ==
    IF at = "assign" THEN {"risk_level", "risk_reason", "risk_indicators", "risk_score"}
    ELSE IF at = "simplify" THEN {"simplified_text"}
    ELSE IF at = "enrich" THEN {"rag_context"}
    ELSE IF at = "suggest" THEN {"suggestion", "suggestion_status"}
    ELSE {}

\* the fields a suggestion operation may write
SuggestionWrites(op) ==
    IF op \in {"accept", "reject"} THEN {"suggestion_status", "updated_at"}
    ELSE IF op = "edit"
    THEN {"edited_suggestion", "suggestion_status", "updated_at", "edit_log"}
    ELSE {"suggestion", "edited_suggestion", "suggestion_status", "updated_at"}

\* list b is list a but for the fields of W
SameBut(a, b, W) ==
    /\ Len(a) = Len(b)
    /\ \A i \in 1..Len(a) :
           \A field \in (DOMAIN a[i]) \ W : b[i][field] = a[i][field]

\* C22: once a clause record is created, no later operation changes its
\* clause_id, clause_type, original_text, position_in_document or
\* word_count: assign_risk_levels writes the four risk fields only, and the
\* steps after it (simplify, RAG, suggestions) and the suggestion operations
\* (accept, reject, edit, regenerate) write their own fields only.
C22_CreationFieldsNeverChange ==
    [][/\ \A c \in ClauseRecords : \A d \in ClauseRecords' :
              c.clause_id = d.clause_id => Identity(c) = Identity(d)
       /\ \A r \in 1..Len(requests) :
              requests[r].clauses # <<>> =>
                  SameBut(requests[r].clauses, requests'[r].clauses,
                          PipelineWrites(requests[r].pc))
       /\ \A r \in (Len(requests) + 1)..Len(requests') :
              requests'[r].pc = "save" =>
                  SameBut(FindOne.clauses, requests'[r].analysis.clauses,
                          SuggestionWrites(requests'[r].op))
       /\ \A a \in 1..Len(db.analyses) : \A b \in 1..Len(db'.analyses) :
              db.analyses[a]._id = db'.analyses[b]._id =>
                  \/ db'.analyses[b].clauses = db.analyses[a].clauses
                  \/ \E r \in 1..Len(requests) :
                         /\ requests[r].pc = "save"
                         /\ SameBut(db.analyses[a].clauses, db'.analyses[b].clauses,
                                    {"suggestion", "edited_suggestion",
                                     "suggestion_status", "updated_at", "edit_log"})
      ]_vars

C22_Witness ==
    /\ pc = "serving"
    /\ \E r, q \in 1..Len(requests) :
           /\ requests[r].op = "reanalyze" /\ requests[r].response = "200"
           /\ requests[q].op = "edit" /\ requests[q].response = "200"
    /\ db.analyses # <<>>
    /\ \E i \in 1..Len(db.analyses[1].clauses) :
           /\ db.analyses[1].clauses[i].suggestion_status = "edited"
           /\ db.analyses[1].clauses[i].risk_level = "High"
           /\ db.analyses[1].clauses[i].simplified_text = SIMPLIFIED

(***************************************************************************)
(* C23: the contract aggregate is computed from the final clause scores.   *)
(***************************************************************************)
\* the positions of _execute_analysis_pipeline after assign_risk_levels
AfterScoring == {"simplify", "enrich", "suggest", "score", "insert", "summary", "done"}

\* the positions after compute_contract_risk_score
AfterAggregation == {"insert", "summary", "done"}

RiskOf(cl) ==
    [i \in 1..Len(cl) |-> <<cl[i].risk_level, cl[i].risk_score>>]

\* every stored analysis, and every analysis about to be stored, holds the
\* aggregate of its own clause list
AggregateOfStoredList ==
    /\ \A a \in 1..Len(db.analyses) :
           /\ db.analyses[a].overall_risk_score =
                  compute_contract_risk_score(db.analyses[a].clauses)
           /\ \A i \in 1..Len(db.analyses[a].clauses) :
                  HasRisk(db.analyses[a].clauses[i])
    /\ \A r \in 1..Len(requests) :
           (requests[r].pc \in {"insert", "summary"} \/
                requests[r].overall_risk_score # NoScore) =>
               requests[r].overall_risk_score =
                   compute_contract_risk_score(requests[r].clauses)

\* from assign_risk_levels on, no step changes a risk_level or a risk_score
\* of the list, and every clause has them when the scorer returns
ScoresAreFinal ==
    \A r \in 1..Len(requests) :
        /\ (requests[r].pc = "assign" /\ requests'[r].pc = "simplify") =>
               \A i \in 1..Len(requests'[r].clauses) : HasRisk(requests'[r].clauses[i])
        /\ (requests[r].pc \in AfterScoring /\ requests[r].clauses # <<>>) =>
               RiskOf(requests'[r].clauses) = RiskOf(requests[r].clauses)
        /\ requests[r].pc \notin AfterAggregation =>
               requests[r].overall_risk_score = NoScore

\* C23: in every run of the pipeline the aggregate is computed after every
\* clause has its final risk_level and risk_score, no step between the
\* scoring and the aggregation changes them, and the stored
\* overall_risk_score is compute_contract_risk_score of the stored list.
C23_AggregateAfterFinalScores ==
    [](AggregateOfStoredList) /\ [][ScoresAreFinal]_vars

C23_Witness ==
    /\ pc = "serving"
    /\ \E r \in 1..Len(requests) :
           /\ requests[r].op \in {"run", "run_async"}
           /\ requests[r].pc = "done"
           /\ requests[r].response \in {"200", "processing"}
           /\ requests[r].overall_risk_score > 0
    /\ Len(db.analyses) = 1
    /\ Len(db.analyses[1].clauses) = 2
    /\ db.analyses[1].overall_risk_score > 0

(***************************************************************************)
(* C24: what reanalyze_contract leaves in the store.                       *)
(***************************************************************************)
IdsOf(cl) == {cl[i].clause_id : i \in 1..Len(cl)}

\* the clause_ids of the discarded analyses
DiscardedIds(docs) == UNION {IdsOf(docs[a].clauses) : a \in 1..Len(docs)}

\* C24: a reanalyze discards the stored clause list and produces a new one:
\* when reanalyze_contract finishes on a contract that had a stored
\* analysis, the stored analysis is the list it produced, none of its
\* clause_ids occurs in the discarded list, and the contract is not left
\* without a stored clause list.
C24_ReanalyzeReplacesStoredList ==
    [][\A r \in 1..Len(requests) :
           (/\ requests[r].op = "reanalyze"
            /\ requests[r].deleted # <<>>
            /\ requests[r].pc # "done"
            /\ requests'[r].pc = "done")
           => /\ db'.analyses # <<>>
              /\ db'.analyses[1].clauses = requests'[r].clauses
              /\ IdsOf(db'.analyses[1].clauses)
                     \cap DiscardedIds(requests'[r].deleted) = {}
      ]_vars

(***************************************************************************)
(* SpecCalls: several invocations of the core pipeline in one process, on  *)
(* different documents, interleaved between the services' internal steps.  *)
(* Each invocation holds its own locals; the keyword and pattern tables    *)
(* and the str hash salt are read and never assigned, and uuid4 is drawn   *)
(* from the one source of the process.                                     *)
(***************************************************************************)
MaxCalls == 2

DOCUMENTS ==
    {<<SENTENCES[1], SENTENCES[2]>>, <<SENTENCES[3]>>,
     <<SENTENCES[4], SENTENCES[1]>>, <<SENTENCES[5], SENTENCES[2]>>}

\* an invocation of the pipeline: its argument and its locals
Call(sents) ==
    [sentences |-> sents, pc |-> "start", classified |-> <<>>, merged |-> <<>>,
     clauses |-> <<>>, overall_risk_score |-> NoScore]

\* classification into one module-level list that every invocation appends
\* to, instead of the local list classified
CallClassifiedInModuleList(calls, i) ==
    [j \in 1..Len(calls) |->
        [calls[j] EXCEPT
            !.classified = calls[j].classified
                               \o _classify_sentences(calls[i].sentences),
            !.pc = IF j = i THEN "classified" ELSE calls[j].pc]]

\* classified = _classify_sentences(sentences), in invocation i
CallClassified(calls, i) ==
    [calls EXCEPT ![i].classified = _classify_sentences(calls[i].sentences),
                  ![i].pc = "classified"]

\* merged = _merge_adjacent_clauses(classified), in invocation i
CallMerged(calls, i) ==
    [calls EXCEPT ![i].merged = _merge_adjacent_clauses(calls[i].classified),
                  ![i].pc = "merged"]

\* clauses = _assign_metadata(merged), the uuid4 values being the next ones
CallWithMetadata(calls, i, base) ==
    [calls EXCEPT ![i].clauses = WithUuids(_assign_metadata(calls[i].merged), base),
                  ![i].pc = "extracted"]

\* assign_risk_levels(clauses), in invocation i
CallScored(calls, i) ==
    [calls EXCEPT ![i].clauses = assign_risk_levels(calls[i].clauses),
                  ![i].pc = "scored"]

\* compute_contract_risk_score(clauses), in invocation i
CallComputed(calls, i) ==
    [calls EXCEPT ![i].overall_risk_score =
                      compute_contract_risk_score(calls[i].clauses),
                  ![i].pc = "computed"]

CallClassify ==
    /\ pc = "calls"
    /\ \E i \in 1..Len(requests) :
          /\ requests[i].pc = "start"
          /\ requests' = CallClassified(requests, i)
    /\ UNCHANGED <<pipeline_vars, db, uuid_count, _simplifier>>

CallMerge ==
    /\ pc = "calls"
    /\ \E i \in 1..Len(requests) :
          /\ requests[i].pc = "classified"
          /\ requests' = CallMerged(requests, i)
    /\ UNCHANGED <<pipeline_vars, db, uuid_count, _simplifier>>

CallAssignMetadata ==
    /\ pc = "calls"
    /\ \E i \in 1..Len(requests) :
          /\ requests[i].pc = "merged"
          /\ requests' = CallWithMetadata(requests, i, uuid_count)
          /\ uuid_count' = uuid_count + Len(requests'[i].clauses)
    /\ UNCHANGED <<pipeline_vars, db, _simplifier>>

CallAssignRiskLevels ==
    /\ pc = "calls"
    /\ \E i \in 1..Len(requests) :
          /\ requests[i].pc = "extracted"
          /\ requests' = CallScored(requests, i)
    /\ UNCHANGED <<pipeline_vars, db, uuid_count, _simplifier>>

CallComputeScore ==
    /\ pc = "calls"
    /\ \E i \in 1..Len(requests) :
          /\ requests[i].pc = "scored"
          /\ requests' = CallComputed(requests, i)
    /\ UNCHANGED <<pipeline_vars, db, uuid_count, _simplifier>>

\* the lists of MaxCalls different documents
DocumentLists ==
    {d \in [1..MaxCalls -> DOCUMENTS] : \A i, j \in 1..MaxCalls : d[i] = d[j] => i = j}

InitCalls ==
    /\ pc = "calls"
    /\ text = ""
    /\ result = <<>>
    /\ doc_sents = <<>>
    /\ sentences = <<>>
    /\ classified = <<>>
    /\ merged = <<>>
    /\ clauses = <<>>
    /\ overall_risk_score = NoScore
    /\ top_risky_type = None
    /\ hash_seed \in Seeds
    /\ db = [analyses |-> <<>>, analysis_status |-> None,
             analysis_summary |-> [total_clauses |-> 0, overall_risk_score |-> NoScore]]
    /\ \E d \in DocumentLists : requests = [i \in 1..MaxCalls |-> Call(d[i])]
    /\ uuid_count = 0
    /\ _simplifier = None

NextCalls ==
    \/ CallClassify
    \/ CallMerge
    \/ CallAssignMetadata
    \/ CallAssignRiskLevels
    \/ CallComputeScore

SpecCalls == InitCalls /\ [][NextCalls]_vars

(***************************************************************************)
(* C25: interleaved invocations and the invocation run alone.              *)
(***************************************************************************)
\* a clause list without its clause_ids
UpToClauseId(cl) == [i \in 1..Len(cl) |-> [cl[i] EXCEPT !.clause_id = 0]]

\* the clause records the three services return for a document run alone
AloneClauses(sents) ==
    assign_risk_levels(_assign_metadata(_merge_adjacent_clauses(
        _classify_sentences(sents))))

\* C25: the core pipeline keeps no shared mutable state: whatever the
\* interleaving of the invocations on different documents, an invocation
\* whose assign_risk_levels has returned holds the clause records (up to
\* clause_id) that the document gives when run alone, and an invocation
\* whose compute_contract_risk_score has returned holds the aggregate of
\* the document run alone; before that it holds no aggregate.
C25_InterleavedAsAlone ==
    pc = "calls" =>
        \A i \in 1..Len(requests) :
            /\ requests[i].pc \in {"scored", "computed"}
                   => UpToClauseId(requests[i].clauses)
                          = UpToClauseId(AloneClauses(requests[i].sentences))
            /\ requests[i].pc = "computed"
                   => requests[i].overall_risk_score
                          = compute_contract_risk_score(
                                AloneClauses(requests[i].sentences))
            /\ requests[i].pc # "computed"
                   => requests[i].overall_risk_score = NoScore

\* two invocations finished, the second having classified its sentences
\* and drawn its clause_ids while the first was between two of its steps
C25_Witness ==
    /\ pc = "calls"
    /\ Len(requests) >= 2
    /\ requests[1].pc = "computed"
    /\ requests[2].pc = "computed"
    /\ requests[1].clauses # <<>>
    /\ requests[2].clauses # <<>>
    /\ requests[2].clauses[1].clause_id < requests[1].clauses[1].clause_id
    /\ requests[1].overall_risk_score # requests[2].overall_risk_score

(***************************************************************************)
(* C26: the characters left in the output of _preprocess_text.             *)
(***************************************************************************)
TYPOGRAPHIC ==
    {LEFT_SINGLE_QUOTE, RIGHT_SINGLE_QUOTE, LEFT_DOUBLE_QUOTE, RIGHT_DOUBLE_QUOTE,
     EM_DASH, EN_DASH}

\* C26: the output of _preprocess_text contains no curly quote (U+2018,
\* U+2019, U+201C, U+201D), no em dash (U+2014) and no en dash (U+2013).
C26_NoTypographicCharacter ==
    pc = "extracted" => \A c \in TYPOGRAPHIC : ~Contains(text, c)

(***************************************************************************)
(* C27: the level of a clause and its normalized score.                    *)
(***************************************************************************)
\* C27: the risk level is consistent with the normalized score: Low has
\* risk_score <= 16, Medium has 16 <= risk_score <= 39 and High has
\* risk_score >= 40.
C27_LevelConsistentWithScore ==
    pc = "done" =>
        /\ result.risk_level = "Low" => result.risk_score <= 16
        /\ result.risk_level = "Medium" =>
               (16 <= result.risk_score /\ result.risk_score <= 39)
        /\ result.risk_level = "High" => result.risk_score >= 40

(***************************************************************************)
(* C28: a pattern string listed in more than one table.                    *)
(***************************************************************************)
\* C28: each distinct pattern string is counted at most once. The high and
\* the medium loop record an indicator exactly when they add to the raw
\* score, so this says that no two records of risk_indicators have the same
\* pattern_matched value.
C28_PatternCountedOnce ==
    pc = "done" =>
        \A j, k \in 1..Len(result.risk_indicators) :
            result.risk_indicators[j].pattern_matched
                    = result.risk_indicators[k].pattern_matched
                => j = k

(***************************************************************************)
(* C29: the analyses stored for the contract by run_full_analysis.         *)
(***************************************************************************)
\* no reanalyze among the requests received: what is stored was stored by
\* run_full_analysis
OnlyRuns ==
    \A r \in 1..Len(requests) : requests[r].op # "reanalyze"

\* C29: at most one analysis document is ever stored for the contract by
\* run_full_analysis, also when two run requests are in flight at the same
\* time; a run request that finds an analysis is answered 409 and stores
\* nothing.
C29_OneAnalysisPerContract ==
    /\ [](OnlyRuns => Len(db.analyses) <= 1)
    /\ [][\A r \in (Len(requests) + 1)..Len(requests') :
              (requests'[r].op \in {"run", "run_async"} /\ db.analyses # <<>>)
                  => /\ requests'[r].response = "409"
                     /\ requests'[r].pc = "done"
                     /\ db' = db
         ]_vars

(***************************************************************************)
(* C30: suggestion status updates on two clauses of the contract.          *)
(***************************************************************************)
\* the stored suggestion_status of the clause clause_id
StoredStatus(clause_id) ==
    {FindOne.clauses[i].suggestion_status :
        i \in {i \in 1..Len(FindOne.clauses) : FindOne.clauses[i].clause_id = clause_id}}

\* the status a completed request leaves on its clause
StatusOf(op) ==
    IF op = "accept" THEN "accepted" ELSE IF op = "reject" THEN "rejected" ELSE "edited"

\* C30: status updates on different clauses do not overwrite each other:
\* once an accept_suggestion on clause A and a reject_suggestion (or
\* custom_edit_suggestion) on another clause B have both completed,
\* whatever their interleaving, the stored analysis has A accepted and B
\* rejected (or edited).
C30_UpdatesDoNotOverwrite ==
    pc = "serving" =>
        \A a, b \in 1..Len(requests) :
            (/\ requests[a].op = "accept"
             /\ requests[b].op \in {"reject", "edit"}
             /\ requests[a].clause_id # requests[b].clause_id
             /\ requests[a].pc = "done" /\ requests[a].response = "200"
             /\ requests[b].pc = "done" /\ requests[b].response = "200"
             /\ Len(requests) = 2)
            => /\ StoredStatus(requests[a].clause_id) = {StatusOf("accept")}
               /\ StoredStatus(requests[b].clause_id) = {StatusOf(requests[b].op)}
====
